---- MODULE Spec2Model ----
(***************************************************************************)
(* Model of benson/poolbuilder.                                            *)
(*                                                                         *)
(*  - the submission worker (handleSubmit, handleGetSubmissions,           *)
(*    handleFeature) over the SUBS key-value namespace.  Every `await` of  *)
(*    a handler is a point where other requests may run; the code between  *)
(*    two awaits runs without interruption and is one action (Spec;        *)
(*    SpecSeq when requests do not overlap);                               *)
(*  - the daily pool generator of scripts/generate-daily.js (seededRandom, *)
(*    pickRandom, isInRange, isCollectorExclusive, fetchAllSetCards,       *)
(*    generatePool on its legacy and structured paths, the write of        *)
(*    daily.json), with the PRNG kept at its 32-bit width (SpecGen);       *)
(*  - a run of main() of that script: the reads of the clock, the fetches  *)
(*    through fetchJSON and what each caller does with their outcome,      *)
(*    pickDailySet, then the generation above and the write (SpecMain);    *)
(*  - the deck builder of part_001 (currentPool, deck, addToDeck,          *)
(*    removeFromDeck, clearDeck, generatePool) (SpecDeck).                 *)
(***************************************************************************)
EXTENDS Integers, Sequences, FiniteSets, TLC

VARIABLES
    clock,     \* the current UTC date, as new Date() reports it
    kv,        \* env.SUBS: key -> stored value (meaningful for keys in present)
    present,   \* the keys that exist in env.SUBS
    reqs,      \* slot -> the position and local variables of the handler running in it
    started,   \* number of requests received so far
    out,       \* the response sent by the step just taken (NoOut when none)
    ok200,     \* history: <<date, fingerprint>> -> ids answered 200 by submit, in order
    gen,       \* generate-daily.js: the arguments, locals and results of generatePool
    ui,        \* part_001: currentPool, deck, the pool cards rendered, the pending calls
    run        \* generate-daily.js: the position and locals of main()

vars == <<clock, kv, present, reqs, started, out, ok200, gen, ui, run>>

\* The variables of the worker, and those of everything else.
storeVars == <<clock, kv, present, reqs, started, out, ok200>>
notStore == <<gen, ui, run>>
notGen == <<clock, kv, present, reqs, started, out, ok200, ui, run>>
notUi == <<clock, kv, present, reqs, started, out, ok200, gen, run>>
notRun == <<clock, kv, present, reqs, started, out, ok200, ui>>

----------------------------------------------------------------------------
(* Bounds and input sets *)

MaxReqs == 3
MaxInFlight == 2

Absent == "absent"                 \* undefined / null / "" in a request
Days == <<"2024-01-01", "2024-01-02">>
DaySet == {Days[i] : i \in 1..Len(Days)}
BadDate == "yesterday"             \* a :date path segment that is not YYYY-MM-DD
FPs == {"f1", "f2"}
Ids == {"a", "b"}
\* <<cardIds.length, sum of the basics values>> of the well-formed decks tried
Decks == {<<39, 0>>, <<39, 1>>, <<40, 0>>}
Fields == {"date", "fingerprint", "cardIds", "basics", "colors"}

ADMIN_SECRET == "s3cret"
NoHeader == "none"
AuthHeaders == {NoHeader, "Bearer s3cret", "Bearer wrong", "s3cret"}

ReqIds == 1..MaxInFlight

SubsKey(date) == <<"subs", date>>
MetaKey(date) == <<"meta", date>>
Keys == {SubsKey(d) : d \in DaySet} \cup {MetaKey(d) : d \in DaySet}

DefaultMeta == [count |-> 0, featured |-> <<>>]

----------------------------------------------------------------------------
(* part_000: helpers *)

todayUTC == clock

\* env.SUBS.get(key, 'json') || []
GetSubs(date) == IF SubsKey(date) \in present THEN kv[SubsKey(date)] ELSE <<>>

\* env.SUBS.get(key, 'json') || { count: 0, featured: [] }
GetMeta(date) == IF MetaKey(date) \in present THEN kv[MetaKey(date)] ELSE DefaultMeta

\* submissions.find(s => s.fingerprint === fingerprint): index of the first match, 0 if none
RECURSIVE FindFrom(_, _, _)
FindFrom(subs, fp, i) ==
    IF i > Len(subs) THEN 0
    ELSE IF subs[i].fingerprint = fp THEN i
    ELSE FindFrom(subs, fp, i + 1)

\* Mutant: the lookup compares the submission's id with the fingerprint.
RECURSIVE FindByIdFrom(_, _, _)
FindByIdFrom(subs, fp, i) ==
    IF i > Len(subs) THEN 0
    ELSE IF subs[i].id = fp THEN i
    ELSE FindByIdFrom(subs, fp, i + 1)

FindById(subs, fp) == FindByIdFrom(subs, fp, 1)

Find(subs, fp) == FindFrom(subs, fp, 1)

\* submissions.some(s => s.fingerprint === fingerprint)
Some(subs, fp) == \E i \in 1..Len(subs) : subs[i].fingerprint = fp

\* meta.featured.includes(submissionId)
Includes(list, x) == \E i \in 1..Len(list) : list[i] = x

\* meta.featured.filter(id => id !== submissionId)
RECURSIVE Filter(_, _)
Filter(list, x) ==
    IF list = <<>> THEN <<>>
    ELSE IF Head(list) = x THEN Filter(Tail(list), x)
    ELSE <<Head(list)>> \o Filter(Tail(list), x)

MinDeck == 40

\* Mutant: the basic lands are left out of the count.
TooSmallCardsOnly(cards, basics) == cards < MinDeck

\* cardIds.length + basicsTotal < 40
TooSmall(cards, basics) == cards + basics < MinDeck

DayIndex(date) == CHOOSE i \in 1..Len(Days) : Days[i] = date

\* Mutant: only dates before today are refused.
NotTodayPastOnly(date) == DayIndex(date) < DayIndex(todayUTC)

\* date !== todayUTC()
NotToday(date) == date # todayUTC

\* Mutant: only an absent header is refused.
UnauthorizedIfAbsent(auth) == auth = NoHeader

\* auth !== `Bearer ${env.ADMIN_SECRET}` (an absent header is rejected by !auth)
Unauthorized(auth) == auth = NoHeader \/ auth # "Bearer " \o ADMIN_SECRET

----------------------------------------------------------------------------
(* Requests and responses *)

Idle ==
    [op |-> "none", pc |-> "idle", date |-> Absent, fp |-> Absent, cards |-> 0,
     basics |-> 0, sid |-> Absent, featured |-> FALSE, todayRead |-> Absent,
     subs |-> <<>>, meta |-> DefaultMeta, subsIn |-> <<>>, metaIn |-> DefaultMeta,
     id |-> Absent, wrote |-> {}, prior |-> <<>>, auth |-> NoHeader]

\* A new request is handled in the first free slot.
Free(k) == reqs[k].pc = "idle" /\ \A j \in 1..(k - 1) : reqs[j].pc # "idle"

NoOut ==
    [op |-> "none", status |-> 0, kind |-> "none", err |-> "", date |-> Absent,
     fp |-> Absent, cards |-> 0, basics |-> 0, sid |-> Absent, featured |-> FALSE,
     auth |-> NoHeader, todayRead |-> Absent, id |-> Absent, subs |-> <<>>,
     meta |-> DefaultMeta, count |-> 0, subsIn |-> <<>>, metaIn |-> DefaultMeta,
     wrote |-> {}, prior |-> <<>>, bodyRead |-> FALSE]

\* json({ error }, status)
ErrorOut(op, status, err) ==
    [NoOut EXCEPT !.op = op, !.status = status, !.kind = "error", !.err = err]

\* The request bodies POST /submit is tried with: none, one or all of the required
\* fields may be absent; a present field takes a value of its input set.
SubmitBodies ==
    {[missing |-> m, date |-> d, fp |-> f, cards |-> dk[1], basics |-> dk[2]] :
        m \in {{}, Fields} \cup {{f} : f \in Fields}, d \in DaySet, f \in FPs, dk \in Decks}

StoreInit ==
    /\ clock = Days[1]
    /\ kv = [k \in Keys |-> IF k[1] = "subs" THEN <<>> ELSE DefaultMeta]
    /\ present = {}
    /\ reqs = [k \in ReqIds |-> Idle]
    /\ started = 0
    /\ out = NoOut
    /\ ok200 = [p \in DaySet \X FPs |-> <<>>]

----------------------------------------------------------------------------
(* part_001: the deck builder.  currentPool and deck are module-level          *)
(* variables; the click handlers and the asynchronous generatePool run on one  *)
(* event loop, so a handler may run at each await of a pending generatePool.   *)
(* Of a card the deck builder compares the id only: a card is its id.          *)

MaxGenerations == 3
MaxPending == 2

CardIds == {"a", "b", "c"}
\* The pools a generation or daily.json may give
Pools == {<<"a", "a", "b">>, <<"b", "c">>, <<"c">>}

Calls == 1..MaxPending

UiInit ==
    ui = [currentPool |-> <<>>, deck |-> <<>>, shown |-> <<>>,
          calls |-> [k \in Calls |-> "idle"], generations |-> 0]

\* arr.filter(c => c.id === card.id).length
CountOf_id(arr, id) == Len(SelectSeq(arr, LAMBDA c : c = id))

\* Lines 217-227: generatePool is called; it awaits fetchAllSetCards.
app_generatePool_start(k) ==
    /\ ui.generations < MaxGenerations
    /\ ui.calls[k] = "idle"
    /\ ui' = [ui EXCEPT !.calls[k] = "fetchAllSetCards", !.generations = @ + 1]
    /\ UNCHANGED notUi

\* Lines 227-229, 242-247: fetchAllSetCards or the generation throws; the catch
\* block alerts and neither currentPool nor deck is assigned.
app_generatePool_failed(k) ==
    /\ ui.calls[k] = "fetchAllSetCards"
    /\ ui' = [ui EXCEPT !.calls[k] = "idle"]
    /\ UNCHANGED notUi

\* Lines 229-232: currentPool = await generateSealedPoolFromBoosterData(...);
\* then fetchBasicLands is awaited.
app_generatePool_setPool(k) ==
    /\ ui.calls[k] = "fetchAllSetCards"
    /\ \E pool \in Pools :
        ui' = [ui EXCEPT !.currentPool = pool, !.calls[k] = "fetchBasicLands"]
    /\ UNCHANGED notUi

\* Lines 234-241: deck = []; renderPool(); renderDeck()
app_generatePool_reset(k) ==
    /\ ui.calls[k] = "fetchBasicLands"
    /\ ui' = [ui EXCEPT !.deck = <<>>, !.shown = ui.currentPool, !.calls[k] = "idle"]
    /\ UNCHANGED notUi

\* Lines 186-199: handleDailyGenerate loads daily.json: currentPool = daily.pool;
\* deck = []; renderPool(), with no await in between.
handleDailyGenerate_load ==
    /\ ui.generations < MaxGenerations
    /\ \E pool \in Pools :
        ui' = [ui EXCEPT !.currentPool = pool, !.deck = <<>>, !.shown = pool,
                         !.generations = @ + 1]
    /\ UNCHANGED notUi

\* Lines 640-650, 589: a click on a card rendered in the pool grid
addToDeck(card) ==
    /\ \E n \in 1..Len(ui.shown) : ui.shown[n] = card
    /\ LET inDeckCount == CountOf_id(ui.deck, card)
           inPoolCount == CountOf_id(ui.currentPool, card)
       IN  /\ inDeckCount < inPoolCount
           /\ ui' = [ui EXCEPT !.deck = Append(@, card)]
    /\ UNCHANGED notUi

\* Lines 652-660, 591: a click on a card of the deck grid; the first copy is spliced out
removeFromDeck(card) ==
    /\ \E n \in 1..Len(ui.deck) : ui.deck[n] = card
    /\ LET idx == CHOOSE n \in 1..Len(ui.deck) :
                      ui.deck[n] = card /\ \A m \in 1..(n - 1) : ui.deck[m] # card
       IN  ui' = [ui EXCEPT !.deck = SubSeq(@, 1, idx - 1) \o SubSeq(@, idx + 1, Len(@))]
    /\ UNCHANGED notUi

\* Lines 806-813: deck = []; renderDeck(); renderPool()
clearDeck ==
    /\ ui.deck # <<>> \/ ui.shown # ui.currentPool
    /\ ui' = [ui EXCEPT !.deck = <<>>, !.shown = ui.currentPool]
    /\ UNCHANGED notUi

----------------------------------------------------------------------------
(* scripts/generate-daily.js: 32-bit arithmetic.  A 32-bit value is <<hi, lo>>, *)
(* its two 16-bit halves; all operations wrap as the int32 operations of JS do. *)

RECURSIVE Xor16(_, _, _)
Xor16(a, b, n) ==
    IF n = 0 THEN 0
    ELSE ((a + b) % 2) + 2 * Xor16(a \div 2, b \div 2, n - 1)

RECURSIVE Or16(_, _, _)
Or16(a, b, n) ==
    IF n = 0 THEN 0
    ELSE (IF a % 2 = 1 \/ b % 2 = 1 THEN 1 ELSE 0) + 2 * Or16(a \div 2, b \div 2, n - 1)

\* a ^ b
Xor32(a, b) == <<Xor16(a[1], b[1], 16), Xor16(a[2], b[2], 16)>>

\* a | b
Or32(a, b) == <<Or16(a[1], b[1], 16), Or16(a[2], b[2], 16)>>

\* a + b | 0
Add32(a, b) ==
    LET lo == a[2] + b[2]
    IN  <<(a[1] + b[1] + lo \div 65536) % 65536, lo % 65536>>

\* a - b | 0
Sub32(a, b) == Add32(a, Add32(<<65535 - b[1], 65535 - b[2]>>, <<0, 1>>))

\* a << n, for 0 < n < 16
Shl32(a, n) ==
    <<(a[1] * 2^n + (a[2] * 2^n) \div 65536) % 65536, (a[2] * 2^n) % 65536>>

\* a >>> n, for 0 < n < 16
Shr32(a, n) ==
    <<a[1] \div 2^n, (a[1] % 2^n) * 2^(16 - n) + a[2] \div 2^n>>

\* The 32-bit product of two 16-bit values, computed in steps below 2^31.
Mul16(a, b) ==
    LET p1 == a * (b \div 256)
        p0 == a * (b % 256)
        low == (p1 % 256) * 256 + p0
    IN  <<(p1 \div 256 + low \div 65536) % 65536, low % 65536>>

\* Math.imul(a, b)
Imul(a, b) ==
    LET ll == Mul16(a[2], b[2])
        cross == (Mul16(a[1], b[2])[2] + Mul16(a[2], b[1])[2]) % 65536
    IN  <<(ll[1] + cross) % 65536, ll[2]>>

----------------------------------------------------------------------------
(* scripts/generate-daily.js: the seeded PRNG *)

\* str.charCodeAt(i), for the characters of the seeds used
CharCode ==
    [c \in {"d", "a", "i", "l", "y", "-", "0", "1", "2", "3", "4", "5", "6", "7", "8", "9"} |->
        CASE c = "d" -> 100 [] c = "a" -> 97 [] c = "i" -> 105 [] c = "l" -> 108
          [] c = "y" -> 121 [] c = "-" -> 45 [] c = "0" -> 48 [] c = "1" -> 49
          [] c = "2" -> 50 [] c = "3" -> 51 [] c = "4" -> 52 [] c = "5" -> 53
          [] c = "6" -> 54 [] c = "7" -> 55 [] c = "8" -> 56 [] c = "9" -> 57]

\* hash = ((hash << 5) - hash) + str.charCodeAt(i); hash |= 0
RECURSIVE HashFrom(_, _, _)
HashFrom(str, i, hash) ==
    IF i > Len(str) THEN hash
    ELSE LET next == Add32(Sub32(Shl32(hash, 5), hash), <<0, CharCode[str[i]]>>)
         IN  IF next \in Seq(Nat) THEN HashFrom(str, i + 1, next) ELSE next

hashString(str) == HashFrom(str, 1, <<0, 0>>)

\* Mutant: the generator state is kept outside the closure and outlives a call.
seededRandomShared(seed) ==
    IF gen.results = <<>> THEN hashString(seed) ELSE gen.random

\* The closure state seededRandom(seed) starts with: a string seed is hashed.
seededRandom(seed) == hashString(seed)

\* One call of the closure: the new closure state and the 32-bit value u, the
\* float returned being u / 4294967296.
Random(state) ==
    LET seed == Add32(state, <<27947, 31221>>)            \* seed + 0x6D2B79F5 | 0
        t1 == Imul(Xor32(seed, Shr32(seed, 15)), Or32(<<0, 1>>, seed))
        t2 == Xor32(Add32(t1, Imul(Xor32(t1, Shr32(t1, 7)), Or32(<<0, 61>>, t1))), t1)
    IN  [seed |-> seed, u |-> Xor32(t2, Shr32(t2, 14))]

\* random() < 0.125, for the value u of the call: 0.125 * 2^32 = 2^29
BelowEighth(u) == u[1] < 8192

\* Mutant: Math.round in place of Math.floor.
RoundTimes(u, n) == (u[1] * n + 32768 + (u[2] * n) \div 65536) \div 65536

\* Math.floor(random() * n), for the value u of the call
FloorTimes(u, n) == (u[1] * n + (u[2] * n) \div 65536) \div 65536

Undefined ==
    [id |-> "undefined", rarity |-> "undefined", collector_number |-> <<>>,
     promo_types |-> <<>>, frame_effects |-> <<>>, booster |-> FALSE]

\* arr[Math.floor(random() * arr.length)]; an index outside arr reads undefined
pickRandom(arr, u) ==
    LET i == FloorTimes(u, Len(arr))
    IN  IF i < Len(arr) THEN arr[i + 1] ELSE Undefined

----------------------------------------------------------------------------
(* scripts/generate-daily.js: collector-exclusive detection *)

COLLECTOR_EXCLUSIVE_PROMOS ==
    {"fracturefoil", "texturedfoil", "ripplefoil", "halofoil", "confettifoil",
     "galaxyfoil", "surgefoil", "raisedfoil", "headliner"}
COLLECTOR_EXCLUSIVE_FRAMES == {"inverted", "extendedart"}

\* Mutant: only the promo types are looked at.
isCollectorExclusivePromosOnly(card) ==
    \E i \in 1..Len(card.promo_types) : card.promo_types[i] \in COLLECTOR_EXCLUSIVE_PROMOS

\* promos.some(p => PROMOS.includes(p)) || frames.some(f => FRAMES.includes(f))
isCollectorExclusive(card) ==
    \/ \E i \in 1..Len(card.promo_types) : card.promo_types[i] \in COLLECTOR_EXCLUSIVE_PROMOS
    \/ \E i \in 1..Len(card.frame_effects) : card.frame_effects[i] \in COLLECTOR_EXCLUSIVE_FRAMES

----------------------------------------------------------------------------
(* scripts/generate-daily.js: collector-number ranges.  Strings are sequences  *)
(* of characters; a number is [nan, val], NaN being the value with nan = TRUE. *)

Digits == <<"0", "1", "2", "3", "4", "5", "6", "7", "8", "9">>
IsDigit(c) == \E d \in 1..Len(Digits) : Digits[d] = c
DigitVal(c) == (CHOOSE d \in 1..Len(Digits) : Digits[d] = c) - 1

NaN == [nan |-> TRUE, val |-> 0]
Num(v) == [nan |-> FALSE, val |-> v]

\* The string without its leading white space
RECURSIVE TrimStart(_)
TrimStart(str) ==
    IF str # <<>> /\ Head(str) = " " THEN TrimStart(Tail(str)) ELSE str

\* The value of the longest prefix of decimal digits of str, read after acc; seen
\* tells whether a digit was read.
RECURSIVE DigitsFrom(_, _, _)
DigitsFrom(str, acc, seen) ==
    IF str # <<>> /\ IsDigit(Head(str))
    THEN DigitsFrom(Tail(str), 10 * acc + DigitVal(Head(str)), TRUE)
    ELSE IF seen THEN Num(acc) ELSE NaN

\* parseInt(str, 10): leading white space is skipped, a sign is read, then the
\* longest prefix of digits; what follows the digits is ignored; NaN without a digit.
parseInt(str) ==
    LET t == TrimStart(str)
        signed == t # <<>> /\ Head(t) \in {"-", "+"}
        n == DigitsFrom(IF signed THEN Tail(t) ELSE t, 0, FALSE)
    IN  IF ~n.nan /\ signed /\ Head(t) = "-" THEN Num(0 - n.val) ELSE n

\* str.includes(c)
IncludesChar(str, c) == \E i \in 1..Len(str) : str[i] = c

\* str.split(sep): the pieces of str between the occurrences of sep
RECURSIVE SplitFrom(_, _, _)
SplitFrom(str, sep, piece) ==
    IF str = <<>> THEN <<piece>>
    ELSE IF Head(str) = sep THEN <<piece>> \o SplitFrom(Tail(str), sep, <<>>)
    ELSE SplitFrom(Tail(str), sep, Append(piece, Head(str)))

Split(str, sep) == SplitFrom(str, sep, <<>>)

\* a >= b and a <= b on numbers: false when either side is NaN
Geq(a, b) == ~a.nan /\ ~b.nan /\ a.val >= b.val
Leq(a, b) == ~a.nan /\ ~b.nan /\ a.val <= b.val
\* a === b on numbers: NaN equals nothing
StrictEq(a, b) == ~a.nan /\ ~b.nan /\ a.val = b.val

\* Lines 87-95
isInRange(cn, rangeStr) ==
    LET cnNum == parseInt(cn)
    IN  IF cnNum.nan THEN FALSE
        ELSE IF IncludesChar(rangeStr, "-")
        THEN LET parts == Split(rangeStr, "-")
                 start == parseInt(parts[1])
                 end == parseInt(parts[2])
             IN  Geq(cnNum, start) /\ Leq(cnNum, end)
        ELSE StrictEq(cnNum, parseInt(rangeStr))

----------------------------------------------------------------------------
(* scripts/generate-daily.js: generatePool, legacy path *)

MaxCalls == 2

\* A card of the catalog, as the card search returns it: cn is the collector number,
\* a string, kept as the sequence of its characters.
FullCard(id, rarity, cn, promos, frames, booster) ==
    [id |-> id, rarity |-> rarity, collector_number |-> cn, promo_types |-> promos,
     frame_effects |-> frames, booster |-> booster]

\* A booster card without promo types or frame effects.
Card(id, rarity, cn) == FullCard(id, rarity, cn, <<>>, <<>>, TRUE)

CatFull ==
    <<Card("c1", "common", <<"1">>), Card("u1", "uncommon", <<"2">>), Card("r1", "rare", <<"3">>),
      Card("m1", "mythic", <<"4">>), Card("c2", "common", <<"5">>), Card("u2", "uncommon", <<"6">>)>>
CatWide ==
    <<Card("m1", "mythic", <<"1">>), Card("m2", "mythic", <<"2">>), Card("r1", "rare", <<"3">>),
      Card("r2", "rare", <<"4">>), Card("u1", "uncommon", <<"5">>), Card("c1", "common", <<"6">>),
      Card("c2", "common", <<"7">>), Card("c3", "common", <<"8">>)>>
CatNoMythic ==
    <<Card("c1", "common", <<"1">>), Card("c2", "common", <<"2">>), Card("u1", "uncommon", <<"3">>),
      Card("r1", "rare", <<"4">>), Card("r2", "rare", <<"5">>)>>
CatNoRare ==
    <<Card("c1", "common", <<"1">>), Card("u1", "uncommon", <<"2">>), Card("m1", "mythic", <<"3">>)>>
Catalogs == {CatFull, CatWide, CatNoMythic, CatNoRare}

\* getDailySeed(): 'daily-' + dateStr
SeedOf(dateStr) == <<"d", "a", "i", "l", "y", "-">> \o dateStr

SeedDates ==
    <<  <<"2", "0", "2", "4", "-", "0", "1", "-", "0", "1">>,
        <<"2", "0", "2", "4", "-", "0", "1", "-", "0", "5">>,
        <<"2", "0", "2", "4", "-", "0", "1", "-", "1", "1">>  >>
Seeds == {SeedOf(SeedDates[i]) : i \in 1..Len(SeedDates)}

\* boosterFile = null; a booster file otherwise is [hasSlots |-> TRUE, slots |-> ...]
NoBooster == [hasSlots |-> FALSE, slots |-> <<>>]

\* boosterFile?.slots
HasSlots(boosterFile) == boosterFile.hasSlots

\* cards.filter(c => c.rarity === rarity)
ByRarity(cards, rarity) == SelectSeq(cards, LAMBDA c : c.rarity = rarity)

\* daily.json: not written yet.  crashed: main() was rejected by a TypeError and
\* the process exits with status 1 without writing.
NoDaily == [written |-> FALSE, crashed |-> FALSE, pool |-> <<>>]

\* The run of main() before the filter of fetchAllSetCards: raw is what the card
\* search returns.  cards, the argument of generatePool, is set by
\* main_fetchCards.  calls is the number of calls of generatePool made with the
\* arguments: one in a run of main, MaxCalls where the results of calls are
\* compared.
GenStart(raw, boosterFile, seed) ==
    [pc |-> "start", raw |-> raw, cards |-> <<>>, boosterFile |-> boosterFile,
     seed |-> seed, random |-> <<0, 0>>, pack |-> 0, slot |-> 0, i |-> 0, pool |-> <<>>,
     values |-> <<>>, draws |-> <<>>, results |-> <<>>, daily |-> NoDaily,
     calls |-> MaxCalls]

\* No call of generatePool is running; results holds what the finished calls returned.
GenIdle(cards, seed) ==
    [GenStart(cards, NoBooster, seed) EXCEPT !.pc = "idle", !.cards = cards]

Packs == 6
UncommonsPerPack == 3
CommonsPerPack == 10

----------------------------------------------------------------------------
(* scripts/generate-daily.js: generatePool, structured path.  A slot is        *)
(* [hasRarities, rarities, count, hasRate, mythicRate, hasPool, pool]: pool is *)
(* the list, finish by finish, of the lists of ranges; mythicRate is in        *)
(* eighths.                                                                    *)

\* slot.mythicRate ?? 0.125, in eighths
DefaultMythicRate == 1
MythicRate(slot) == IF slot.hasRate THEN slot.mythicRate ELSE DefaultMythicRate

\* random() < rate for the value u of the call and a rate of `eighths` eighths:
\* u < eighths * 2^29
BelowRate(u, eighths) == u[1] < eighths * 8192

\* for (const finishRanges of Object.values(slot.pool)) ranges.push(...finishRanges)
RECURSIVE Flatten(_)
Flatten(lists) ==
    IF lists = <<>> THEN <<>> ELSE Head(lists) \o Flatten(Tail(lists))

Ranges(slot) == Flatten(slot.pool)

\* ranges.some(range => isInRange(cn, range))
InRanges(cn, ranges) == \E n \in 1..Len(ranges) : isInRange(cn, ranges[n])

\* slot.rarities.includes(rarity)
HasRarityIn(slot, rarity) == \E n \in 1..Len(slot.rarities) : slot.rarities[n] = rarity

\* Lines 197-201: the matching cards whose id is not in the list yet are pushed
RECURSIVE PushNew(_, _)
PushNew(list, matching) ==
    IF matching = <<>> THEN list
    ELSE IF \E n \in 1..Len(list) : list[n].id = Head(matching).id
         THEN PushNew(list, Tail(matching))
         ELSE PushNew(Append(list, Head(matching)), Tail(matching))

\* Lines 187-203: cardsByRarity[rarity] after the slots from s on were visited
RECURSIVE CardsByRarityFrom(_, _, _, _, _)
CardsByRarityFrom(cards, slots, s, rarity, list) ==
    IF s > Len(slots) THEN list
    ELSE IF ~slots[s].hasPool \/ ~slots[s].hasRarities \/ ~HasRarityIn(slots[s], rarity)
    THEN CardsByRarityFrom(cards, slots, s + 1, rarity, list)
    ELSE LET matching == SelectSeq(cards, LAMBDA card :
                            /\ card.rarity = rarity
                            /\ InRanges(card.collector_number, Ranges(slots[s])))
         IN  CardsByRarityFrom(cards, slots, s + 1, rarity, PushNew(list, matching))

\* cardsByRarity[rarity] || []
cardsByRarity(cards, slots, rarity) == CardsByRarityFrom(cards, slots, 1, rarity, <<>>)

\* Lines 205-213
allInPool(cards, slots) ==
    SelectSeq(cards, LAMBDA card :
        \E s \in 1..Len(slots) :
            slots[s].hasPool /\ InRanges(card.collector_number, Ranges(slots[s])))

\* Line 218: if (!slot.pool || !slot.count) continue
Drawable(slot) == slot.hasPool /\ slot.count > 0

\* The first slot after s that draws, 0 when there is none
NextSlot(slots, s) ==
    IF \E t \in (s + 1)..Len(slots) : Drawable(slots[t])
    THEN CHOOSE t \in (s + 1)..Len(slots) :
            Drawable(slots[t]) /\ \A v \in (s + 1)..(t - 1) : ~Drawable(slots[v])
    ELSE 0

Position(pack, slot, i) == [pack |-> pack, slot |-> slot, i |-> i]
Done == Position(Packs, 0, 0)

\* Lines 216-219: the first draw of the loops
FirstDraw(slots) ==
    IF NextSlot(slots, 0) # 0 THEN Position(0, NextSlot(slots, 0), 0) ELSE Done

\* Mutant: one draw per slot, whatever slot.count is.
AfterDrawOnce(slots, pack, slot, i) ==
    IF NextSlot(slots, slot) # 0 THEN Position(pack, NextSlot(slots, slot), 0)
    ELSE IF pack + 1 < Packs THEN Position(pack + 1, NextSlot(slots, 0), 0)
    ELSE Done

\* Mutant: the loop over the slots is the outer loop, the loop over the packs inside.
AfterDrawSlotMajor(slots, pack, slot, i) ==
    IF i + 1 < slots[slot].count THEN Position(pack, slot, i + 1)
    ELSE IF pack + 1 < Packs THEN Position(pack + 1, slot, 0)
    ELSE IF NextSlot(slots, slot) # 0 THEN Position(0, NextSlot(slots, slot), 0)
    ELSE Done

\* Lines 216-219: the draw that follows draw i of the slot in the pack
AfterDraw(slots, pack, slot, i) ==
    IF i + 1 < slots[slot].count THEN Position(pack, slot, i + 1)
    ELSE IF NextSlot(slots, slot) # 0 THEN Position(pack, NextSlot(slots, slot), 0)
    ELSE IF pack + 1 < Packs THEN Position(pack + 1, NextSlot(slots, 0), 0)
    ELSE Done

\* let card = null
Null ==
    [id |-> "null", rarity |-> "null", collector_number |-> <<>>,
     promo_types |-> <<>>, frame_effects |-> <<>>, booster |-> FALSE]

\* Mutant: the card is pushed whatever it is.
PushAlways(pool, card) == Append(pool, card)

\* Line 238: if (card) pool.push(card)
PushCard(pool, card) ==
    IF card # Null /\ card # Undefined THEN Append(pool, card) ELSE pool

\* Lines 165-168, 176, 215: the call starts: random = seededRandom(seed); pool = [].
generatePool_call ==
    /\ gen.pc = "idle"
    /\ Len(gen.results) < gen.calls
    /\ LET first == IF HasSlots(gen.boosterFile) THEN FirstDraw(gen.boosterFile.slots)
                    ELSE Position(0, 0, 0)
       IN  gen' = [gen EXCEPT !.pc = IF ~HasSlots(gen.boosterFile) THEN "rare"
                                     ELSE IF first = Done THEN "return" ELSE "draw",
                              !.random = seededRandom(gen.seed),
                              !.pack = first.pack, !.slot = first.slot, !.i = first.i,
                              !.pool = <<>>, !.values = <<>>, !.draws = <<>>]
    /\ UNCHANGED notGen

\* Lines 178-179: isMythic = random() < 0.125 && byRarity.mythic.length > 0;
\* pool.push(pickRandom(isMythic ? byRarity.mythic : byRarity.rare, random))
generatePool_rare ==
    /\ gen.pc = "rare"
    /\ LET r1 == Random(gen.random)
           r2 == Random(r1.seed)
           isMythic == BelowEighth(r1.u) /\ Len(ByRarity(gen.cards, "mythic")) > 0
           from == IF isMythic THEN ByRarity(gen.cards, "mythic")
                   ELSE ByRarity(gen.cards, "rare")
       IN  gen' = [gen EXCEPT !.random = r2.seed,
                              !.values = @ \o <<r1.u, r2.u>>,
                              !.pool = Append(@, pickRandom(from, r2.u)),
                              !.pc = "uncommon", !.i = 0]
    /\ UNCHANGED notGen

\* Line 180: for (let i = 0; i < 3; i++) pool.push(pickRandom(byRarity.uncommon, random))
generatePool_uncommon ==
    /\ gen.pc = "uncommon"
    /\ LET r == Random(gen.random)
       IN  gen' = [gen EXCEPT !.random = r.seed,
                              !.values = Append(@, r.u),
                              !.pool = Append(@, pickRandom(ByRarity(gen.cards, "uncommon"), r.u)),
                              !.i = IF gen.i + 1 < UncommonsPerPack THEN gen.i + 1 ELSE 0,
                              !.pc = IF gen.i + 1 < UncommonsPerPack THEN "uncommon"
                                     ELSE "common"]
    /\ UNCHANGED notGen

\* Lines 177, 181: the commons of the pack, then the next pack
generatePool_common ==
    /\ gen.pc = "common"
    /\ LET r == Random(gen.random)
           last == ~(gen.i + 1 < CommonsPerPack)
       IN  gen' = [gen EXCEPT !.random = r.seed,
                              !.values = Append(@, r.u),
                              !.pool = Append(@, pickRandom(ByRarity(gen.cards, "common"), r.u)),
                              !.i = IF last THEN 0 ELSE gen.i + 1,
                              !.pack = IF last THEN gen.pack + 1 ELSE gen.pack,
                              !.pc = IF ~last THEN "common"
                                     ELSE IF gen.pack + 1 < Packs THEN "rare"
                                     ELSE "return"]
    /\ UNCHANGED notGen

\* Lines 219-239: one draw of a slot.  The draw is logged in gen.draws with the
\* PRNG values it consumed (decision: the value of the mythic test, if one was
\* drawn) and the length n of the pool it chose.
generatePool_draw ==
    /\ gen.pc = "draw"
    /\ LET slots == gen.boosterFile.slots
           slot == slots[gen.slot]
           both == /\ slot.hasRarities
                   /\ HasRarityIn(slot, "mythic")
                   /\ HasRarityIn(slot, "rare")
           hasMythics == Len(cardsByRarity(gen.cards, slots, "mythic")) > 0
           decides == slot.hasRarities /\ (both => hasMythics)
           r1 == Random(gen.random)
           k == FloorTimes(r1.u, Len(slot.rarities))
           rarity == IF ~slot.hasRarities THEN "any"
                     ELSE IF both
                     THEN IF hasMythics /\ BelowRate(r1.u, MythicRate(slot))
                          THEN "mythic" ELSE "rare"
                     ELSE IF k < Len(slot.rarities) THEN slot.rarities[k + 1]
                     ELSE "undefined"
           state1 == IF decides THEN r1.seed ELSE gen.random
           chosen == IF slot.hasRarities
                     THEN cardsByRarity(gen.cards, slots, rarity)
                     ELSE SelectSeq(allInPool(gen.cards, slots), LAMBDA c :
                              InRanges(c.collector_number, Ranges(slot)))
           picks == Len(chosen) > 0
           r2 == Random(state1)
           card == IF picks THEN pickRandom(chosen, r2.u) ELSE Null
           used == (IF decides THEN <<r1.u>> ELSE <<>>) \o (IF picks THEN <<r2.u>> ELSE <<>>)
           next == AfterDraw(slots, gen.pack, gen.slot, gen.i)
       IN  gen' = [gen EXCEPT
                !.random = IF picks THEN r2.seed ELSE state1,
                !.values = @ \o used,
                !.pool = PushCard(@, card),
                !.draws = Append(@, [pack |-> gen.pack, slot |-> gen.slot, i |-> gen.i,
                                     rarity |-> rarity, values |-> used,
                                     decision |-> IF both /\ decides THEN <<r1.u>> ELSE <<>>,
                                     n |-> Len(chosen), card |-> card]),
                !.pack = next.pack, !.slot = next.slot, !.i = next.i,
                !.pc = IF next = Done THEN "return" ELSE "draw"]
    /\ UNCHANGED notGen

\* Lines 183, 242: return pool
generatePool_return ==
    /\ gen.pc = "return"
    /\ gen' = [gen EXCEPT !.pc = "idle",
                          !.results = Append(@, [pool |-> gen.pool, values |-> gen.values,
                                                 draws |-> gen.draws])]
    /\ UNCHANGED notGen

----------------------------------------------------------------------------
(* scripts/generate-daily.js: main *)

\* Lines 112-127: the filter fetchAllSetCards applies to the cards of the search
fetchAllSetCards(raw, boosterFile) ==
    IF HasSlots(boosterFile)
    THEN LET withPool == SelectSeq(boosterFile.slots, LAMBDA slot : slot.hasPool)
             allRanges == Flatten([n \in 1..Len(withPool) |-> Ranges(withPool[n])])
         IN  SelectSeq(raw, LAMBDA card :
                 InRanges(card.collector_number, allRanges) /\ ~isCollectorExclusive(card))
    ELSE SelectSeq(raw, LAMBDA card : card.booster /\ ~isCollectorExclusive(card))

\* Line 298: cards = await fetchAllSetCards(dailySet.code, boosterFile)
main_fetchCards ==
    /\ gen.pc = "start"
    /\ gen' = [gen EXCEPT !.pc = "idle",
                          !.cards = fetchAllSetCards(gen.raw, gen.boosterFile)]
    /\ UNCHANGED notGen

\* Lines 247-266: of the fields trimCard keeps, those the model has
trimCard(card) ==
    [id |-> card.id, rarity |-> card.rarity, collector_number |-> card.collector_number]

\* throw: what rejects main() and makes the process exit with status 1
Thrown(kind, line) == [kind |-> kind, line |-> line]
NoError == Thrown("none", 0)

\* Lines 310-319: daily.json is written with pool.map(trimCard); trimCard(undefined)
\* throws a TypeError, main() is rejected and nothing is written.  In a run of
\* main() the write comes after fetchBasicLands.
main_write ==
    /\ gen.pc = "idle"
    /\ gen.results # <<>>
    /\ gen.daily = NoDaily
    /\ run.pc \in {"none", "write"}
    /\ LET pool == gen.results[Len(gen.results)].pool
           throws == \E n \in 1..Len(pool) : pool[n] = Undefined
       IN  /\ IF throws
              THEN gen' = [gen EXCEPT !.daily = [NoDaily EXCEPT !.crashed = TRUE]]
              ELSE gen' = [gen EXCEPT !.daily =
                       [written |-> TRUE, crashed |-> FALSE,
                        pool |-> [n \in 1..Len(pool) |-> trimCard(pool[n])]]]
           /\ run' = IF run.pc = "none" THEN run
                     ELSE IF throws
                     THEN [run EXCEPT !.pc = "failed", !.error = Thrown("TypeError", 314)]
                     ELSE [run EXCEPT !.pc = "done"]
    /\ UNCHANGED notRun

----------------------------------------------------------------------------
(* The catalogs, booster files and seeds the generator is run with *)

\* A slot with a rarity list, a count and one finish; no mythicRate
Slot(rarities, count, ranges) ==
    [hasRarities |-> TRUE, rarities |-> rarities, count |-> count, hasRate |-> FALSE,
     mythicRate |-> 0, hasPool |-> TRUE, pool |-> <<ranges>>]

\* A set as the card search returns it: three commons, two uncommons, two rares,
\* one mythic, prints that are collector exclusive (x1, x2), a showcase print, a
\* card that is not in boosters, and collector numbers that are not integers.
CatSet ==
    <<Card("c1", "common", <<"1">>), Card("c2", "common", <<"2">>),
      Card("c3", "common", <<"3">>), Card("u1", "uncommon", <<"4">>),
      Card("u2", "uncommon", <<"5">>), Card("r1", "rare", <<"6">>),
      Card("r2", "rare", <<"7">>), Card("m1", "mythic", <<"8">>),
      FullCard("x1", "rare", <<"9">>, <<"surgefoil">>, <<>>, TRUE),
      FullCard("x2", "common", <<"1", "0">>, <<"prerelease">>, <<"extendedart">>, TRUE),
      FullCard("s1", "common", <<"1", "1">>, <<"prerelease">>, <<"showcase">>, TRUE),
      FullCard("n1", "uncommon", <<"1", "2">>, <<>>, <<>>, FALSE),
      FullCard("p1", "common", <<"2", "a">>, <<>>, <<>>, TRUE),
      FullCard("t1", "common", <<"a", "b", "c">>, <<>>, <<>>, TRUE)>>

\* The booster definition of the spec's end-to-end scenario
BoosterPlain ==
    [hasSlots |-> TRUE, slots |->
        <<[Slot(<<"rare", "mythic">>, 1, <<  <<"6", "-", "8">>  >>)
              EXCEPT !.hasRate = TRUE, !.mythicRate = 0],
          Slot(<<"uncommon">>, 2, <<  <<"4", "-", "5">>  >>),
          Slot(<<"common">>, 3, <<  <<"1", "-", "3">>  >>)>>]

\* Two finishes, a slot of two rarities, a slot without rarities, a slot without
\* pool and a slot with count 0
BoosterMixed ==
    [hasSlots |-> TRUE, slots |->
        <<[Slot(<<"rare", "mythic">>, 1, <<  <<"6", "-", "9">>  >>)
              EXCEPT !.pool = << <<  <<"6", "-", "9">>  >>, <<  <<"8">>  >> >>],
          Slot(<<"common", "uncommon">>, 2, <<  <<"1", "-", "5">>, <<"1", "0", "-", "1", "2">>  >>),
          [Slot(<<>>, 1, <<  <<"1", "-", "3">>, <<"1", "2">>  >>) EXCEPT !.hasRarities = FALSE],
          [Slot(<<"common">>, 2, <<>>) EXCEPT !.hasPool = FALSE, !.pool = <<>>],
          Slot(<<"common">>, 0, <<  <<"1", "-", "3">>  >>)>>]

\* The ranges of the rare/mythic slot hold rares only; a second slot declares the
\* mythic.  The mythic rate is 4/8.
BoosterSplit ==
    [hasSlots |-> TRUE, slots |->
        <<[Slot(<<"rare", "mythic">>, 1, <<  <<"6", "-", "7">>  >>)
              EXCEPT !.hasRate = TRUE, !.mythicRate = 4],
          Slot(<<"mythic">>, 1, <<  <<"8">>  >>)>>]

\* Every slot has an eligible card, not every rarity of a slot has one: the
\* rare/mythic slot holds the mythic only, the second slot commons only.
BoosterSparse ==
    [hasSlots |-> TRUE, slots |->
        <<Slot(<<"rare", "mythic">>, 1, <<  <<"8">>  >>),
          Slot(<<"common", "uncommon">>, 2, <<  <<"1", "-", "3">>  >>)>>]

\* A slot that declares rare and mythic together with a third rarity
BoosterTriple ==
    [hasSlots |-> TRUE, slots |->
        <<Slot(<<"uncommon", "rare", "mythic">>, 2, <<  <<"4", "-", "8">>  >>),
          Slot(<<"common">>, 1, <<  <<"1", "-", "3">>  >>)>>]

\* No mythic lies in the ranges of the definition
BoosterNoMythic ==
    [hasSlots |-> TRUE, slots |->
        <<Slot(<<"rare", "mythic">>, 1, <<  <<"6", "-", "7">>  >>),
          Slot(<<"common">>, 2, <<  <<"1", "-", "3">>  >>)>>]

Scenarios ==
    {<<cards, NoBooster>> : cards \in Catalogs \cup {CatSet}}
    \cup {<<CatSet, boosterFile>> :
            boosterFile \in {BoosterPlain, BoosterMixed, BoosterSplit, BoosterSparse,
                             BoosterTriple, BoosterNoMythic}}

----------------------------------------------------------------------------
(* scripts/generate-daily.js: main() and the fetches it awaits.  Each await   *)
(* of a fetch is a step; the UTC date may change between any two steps.       *)

\* fetchJSON(url, retries = 3)
retries == 3

\* What a fetch is answered with: rate limiting, an error status, status 200
\* with a body that is not JSON, status 200 with the document.
Responses == {"429", "500", "malformed", "ok"}

\* Lines 11-16, one pass of the loop for attempt i answered res: "retry" when
\* the loop continues, "undefined" when it ends without a return, the name of
\* the error thrown, or "value" when the parsed document is returned.
fetchJSON(i, res) ==
    IF res = "429" THEN IF i + 1 < retries THEN "retry" ELSE "undefined"
    ELSE IF res = "500" THEN "HTTP"
    ELSE IF res = "malformed" THEN "SyntaxError"
    ELSE "value"

\* new Date().toISOString().split('T')[0], as characters
ISODate(day) ==
    IF day = Days[1] THEN <<"2", "0", "2", "4", "-", "0", "1", "-", "0", "1">>
    ELSE <<"2", "0", "2", "4", "-", "0", "1", "-", "0", "2">>

\* Lines 21-24
getDailySeed == SeedOf(ISODate(clock))

\* Math.abs(hash) of an int32: the magnitude, 2^31 for -2^31
Abs32(hash) == IF hash[1] >= 32768 THEN Sub32(<<0, 0>>, hash) ELSE hash

\* Lines 26-33
hashDate(dateStr) == Abs32(hashString(dateStr))

\* h % n for the magnitude h and n > 0
Mod32(h, n) == ((h[1] % n) * (65536 % n) + h[2]) % n

\* a >= b for strings: code unit by code unit, a prefix being smaller
RECURSIVE StrGeq(_, _)
StrGeq(a, b) ==
    IF b = <<>> THEN TRUE
    ELSE IF a = <<>> THEN FALSE
    ELSE IF CharCode[Head(a)] # CharCode[Head(b)] THEN CharCode[Head(a)] > CharCode[Head(b)]
    ELSE StrGeq(Tail(a), Tail(b))

\* A set of sets.json; released is <<>> when the set has no release date.
SetRecord(code, released) == [code |-> code, released |-> released]

\* undefined, where a set is expected
NoSet == SetRecord("undefined", <<>>)

\* Line 38: s.released && s.released >= '2020-01-01'
IsRecent(s) ==
    s.released # <<>>
    /\ StrGeq(s.released, <<"2", "0", "2", "0", "-", "0", "1", "-", "0", "1">>)

\* Lines 38-40 for the date string of the seed: recentSets[hashDate(dateStr) %
\* recentSets.length]; x % 0 is NaN and recentSets[NaN] is undefined.
DailySetFor(sets, dateStr) ==
    LET recentSets == SelectSeq(sets, IsRecent)
    IN  IF Len(recentSets) = 0 THEN NoSet
        ELSE recentSets[Mod32(hashDate(dateStr), Len(recentSets)) + 1]

\* Lines 35-41: the date is that of the clock when pickDailySet is called;
\* seed.replace('daily-', '') removes the prefix of the seed.
pickDailySet(sets) ==
    LET seed == getDailySeed
    IN  DailySetFor(sets, SubSeq(seed, 7, Len(seed)))

\* The last call of fetchJSON that has settled: the fetch it was made for, the
\* number of its attempts, the answer to the last attempt and how it settled.
Settled(url, attempts, res, outcome) ==
    [url |-> url, attempts |-> attempts, res |-> res, outcome |-> outcome]
NoFetch == Settled("none", 0, "none", "none")

Colors == <<"W", "U", "B", "R", "G">>

\* main() has not started; NoRun where the script is not run.
NoRun ==
    [pc |-> "none", seed |-> <<>>, date |-> <<>>, setsDoc |-> <<>>, dailySet |-> NoSet,
     boosterType |-> "null", boosterFile |-> NoBooster, i |-> 0, page |-> 0, raw |-> <<>>,
     color |-> 0, lands |-> {}, last |-> NoFetch, error |-> NoError]

RunStart(setsDoc) == [NoRun EXCEPT !.pc = "seed", !.setsDoc = setsDoc]

\* The documents the fetches of a run return
Date(y, m, d) == <<"2", "0">> \o y \o <<"-">> \o m \o <<"-">> \o d
SetsRecent ==
    <<SetRecord("m20", Date(<<"1", "9">>, <<"0", "7">>, <<"1", "2">>)),
      SetRecord("neo", Date(<<"2", "2">>, <<"0", "2">>, <<"1", "8">>)),
      SetRecord("dmu", Date(<<"2", "2">>, <<"0", "9">>, <<"0", "9">>)),
      SetRecord("tbd", <<>>),
      SetRecord("iko", Date(<<"2", "0">>, <<"0", "4">>, <<"2", "4">>))>>
SetsFew ==
    <<SetRecord("eld", Date(<<"1", "9">>, <<"1", "0">>, <<"0", "4">>)),
      SetRecord("jan", Date(<<"2", "0">>, <<"0", "1">>, <<"0", "1">>)),
      SetRecord("one", Date(<<"2", "3">>, <<"0", "2">>, <<"0", "3">>))>>
SetsOld ==
    <<SetRecord("m20", Date(<<"1", "9">>, <<"0", "7">>, <<"1", "2">>)),
      SetRecord("eld", Date(<<"1", "9">>, <<"1", "2">>, <<"3", "1">>)),
      SetRecord("tbd", <<>>)>>
SetsDocs == {SetsRecent, SetsFew, SetsOld}

\* index.boosters[code]: listed is false when the index has no entry for the set
IndexTypes(code) ==
    IF code = "iko" THEN [listed |-> TRUE, types |-> <<"collector", "draft", "play">>]
    ELSE IF code = "dmu" THEN [listed |-> TRUE, types |-> <<"draft", "collector">>]
    ELSE IF code = "jan" THEN [listed |-> TRUE, types |-> <<"collector">>]
    ELSE [listed |-> FALSE, types |-> <<>>]

\* Line 286
BoosterTypeOf(types) ==
    IF Includes(types, "play") THEN "play"
    ELSE IF Includes(types, "draft") THEN "draft"
    ELSE "null"

\* The document at boosters/<code>-<boosterType>.json
BoosterDoc(code, boosterType) ==
    IF boosterType = "play" THEN BoosterPlain ELSE BoosterMixed

\* The pages of the card search: has_more holds on all but the last
CardPages == <<SubSeq(CatSet, 1, 8), SubSeq(CatSet, 9, Len(CatSet))>>

\* main() is rejected: line 323 logs the error and exits with status 1
Fail(kind, line, settled) ==
    [run EXCEPT !.pc = "failed", !.error = Thrown(kind, line), !.last = settled]

\* Line 13: the attempt was answered 429; after the delay the loop goes on
Retry == [run EXCEPT !.i = @ + 1]

\* Line 271: const seed = getDailySeed()
main_seed ==
    /\ run.pc = "seed"
    /\ run' = [run EXCEPT !.pc = "date", !.seed = getDailySeed]
    /\ UNCHANGED <<notRun, gen>>

\* Lines 272-276: const date = new Date()...; the fetch of sets.json is sent
main_date ==
    /\ run.pc = "date"
    /\ run' = [run EXCEPT !.pc = "sets", !.date = ISODate(clock), !.i = 0]
    /\ UNCHANGED <<notRun, gen>>

\* Lines 276-283: an attempt of fetchJSON(SETS_URL) is answered; with the sets,
\* pickDailySet and the dereference of dailySet.name, then the index is fetched.
main_fetchSets(res) ==
    /\ run.pc = "sets"
    /\ LET outcome == fetchJSON(run.i, res)
           settled == Settled("sets", run.i + 1, res, outcome)
           dailySet == pickDailySet(run.setsDoc)
       IN  run' = CASE outcome = "retry" -> Retry
                    [] outcome \in {"HTTP", "SyntaxError"} -> Fail(outcome, 276, settled)
                    [] outcome = "undefined" -> Fail("TypeError", 38, settled)
                    [] outcome = "value" ->
                        IF dailySet = NoSet THEN Fail("TypeError", 278, settled)
                        ELSE [run EXCEPT !.pc = "index", !.dailySet = dailySet, !.i = 0,
                                         !.last = settled]
    /\ UNCHANGED <<notRun, gen>>

\* Lines 283-294: an attempt of the fetch of index.json is answered.  An error
\* thrown in the try block, index.boosters of undefined included, is caught and
\* boosterFile stays null.
main_fetchIndex(res) ==
    /\ run.pc = "index"
    /\ LET outcome == fetchJSON(run.i, res)
           settled == Settled("index", run.i + 1, res, outcome)
           entry == IndexTypes(run.dailySet.code)
           boosterType == IF entry.listed THEN BoosterTypeOf(entry.types) ELSE "null"
       IN  run' = CASE outcome = "retry" -> Retry
                    [] outcome \in {"HTTP", "SyntaxError", "undefined"} ->
                        [run EXCEPT !.pc = "cards", !.boosterFile = NoBooster, !.i = 0,
                                    !.page = 1, !.last = settled]
                    [] outcome = "value" ->
                        IF boosterType = "null"
                        THEN [run EXCEPT !.pc = "cards", !.boosterFile = NoBooster, !.i = 0,
                                         !.page = 1, !.last = settled]
                        ELSE [run EXCEPT !.pc = "booster", !.boosterType = boosterType,
                                         !.i = 0, !.last = settled]
    /\ UNCHANGED <<notRun, gen>>

\* Lines 288-298: an attempt of the fetch of the booster file is answered.  A
\* fetchJSON that returns undefined leaves boosterFile undefined, which has no
\* slots; an error is caught.
main_fetchBooster(res) ==
    /\ run.pc = "booster"
    /\ LET outcome == fetchJSON(run.i, res)
           settled == Settled("booster", run.i + 1, res, outcome)
       IN  run' = CASE outcome = "retry" -> Retry
                    [] outcome \in {"HTTP", "SyntaxError", "undefined"} ->
                        [run EXCEPT !.pc = "cards", !.boosterFile = NoBooster, !.i = 0,
                                    !.page = 1, !.last = settled]
                    [] outcome = "value" ->
                        [run EXCEPT !.pc = "cards", !.i = 0, !.page = 1, !.last = settled,
                                    !.boosterFile = BoosterDoc(run.dailySet.code,
                                                               run.boosterType)]
    /\ UNCHANGED <<notRun, gen>>

\* Lines 104-110: an attempt of the fetch of a page of the card search is
\* answered; data.data of undefined throws.  After the last page the cards go
\* to the filter and to generatePool (lines 112-129, 302).
fetchAllSetCards_page(res) ==
    /\ run.pc = "cards"
    /\ LET outcome == fetchJSON(run.i, res)
           settled == Settled("cards", run.i + 1, res, outcome)
           cards == run.raw \o CardPages[run.page]
           has_more == run.page < Len(CardPages)
       IN  /\ run' = CASE outcome = "retry" -> Retry
                       [] outcome \in {"HTTP", "SyntaxError"} -> Fail(outcome, 298, settled)
                       [] outcome = "undefined" -> Fail("TypeError", 105, settled)
                       [] outcome = "value" ->
                            IF has_more
                            THEN [run EXCEPT !.raw = cards, !.page = @ + 1, !.i = 0,
                                             !.last = settled]
                            ELSE [run EXCEPT !.raw = cards, !.pc = "generate",
                                             !.last = settled]
           /\ gen' = IF outcome = "value" /\ ~has_more
                     THEN [GenStart(cards, run.boosterFile, run.seed) EXCEPT !.calls = 1]
                     ELSE gen
    /\ UNCHANGED notRun

\* Lines 302-307, 141: generatePool has returned; the search for the basic
\* lands of the set is sent.
main_fetchBasicLands ==
    /\ run.pc = "generate"
    /\ gen.pc = "idle"
    /\ Len(gen.results) = gen.calls
    /\ run' = [run EXCEPT !.pc = "lands", !.i = 0]
    /\ UNCHANGED <<notRun, gen>>

\* Lines 140-153: an attempt of the search is answered.  With the document the
\* five lands are found; an error, data.data of undefined included, is caught
\* and the lands are fetched by name.
fetchBasicLands_search(res) ==
    /\ run.pc = "lands"
    /\ LET outcome == fetchJSON(run.i, res)
           settled == Settled("lands", run.i + 1, res, outcome)
       IN  run' = CASE outcome = "retry" -> Retry
                    [] outcome \in {"HTTP", "SyntaxError", "undefined"} ->
                        [run EXCEPT !.pc = "named", !.color = 1, !.i = 0, !.last = settled]
                    [] outcome = "value" ->
                        [run EXCEPT !.pc = "write", !.last = settled,
                                    !.lands = {Colors[c] : c \in 1..Len(Colors)}]
    /\ UNCHANGED <<notRun, gen>>

\* Lines 151-158: an attempt of the fetch of a land by name is answered; an
\* error, trimCard(undefined) included, is caught and the color is skipped.
fetchBasicLands_named(res) ==
    /\ run.pc = "named"
    /\ LET outcome == fetchJSON(run.i, res)
           settled == Settled("named", run.i + 1, res, outcome)
           last == ~(run.color < Len(Colors))
       IN  run' = CASE outcome = "retry" -> Retry
                    [] OTHER ->
                        [run EXCEPT !.pc = IF last THEN "write" ELSE "named",
                                    !.color = IF last THEN 0 ELSE @ + 1, !.i = 0,
                                    !.last = settled,
                                    !.lands = IF outcome = "value"
                                              THEN @ \cup {Colors[run.color]} ELSE @]
    /\ UNCHANGED <<notRun, gen>>

----------------------------------------------------------------------------
(* Specifications of the generator *)

\* A run of the script: the cards of the search, the booster file and the seed;
\* the cards and the seed are the arguments of every call of generatePool made.
InitGen ==
    /\ StoreInit
    /\ UiInit
    /\ \E sc \in Scenarios, seed \in Seeds : gen = GenStart(sc[1], sc[2], seed)
    /\ run = NoRun

NextGen ==
    \/ main_fetchCards
    \/ generatePool_call
    \/ generatePool_rare
    \/ generatePool_uncommon
    \/ generatePool_common
    \/ generatePool_draw
    \/ generatePool_return
    \/ main_write

SpecGen == InitGen /\ [][NextGen]_vars

Init ==
    /\ StoreInit
    /\ UiInit
    /\ gen = GenIdle(CatFull, SeedOf(SeedDates[1]))
    /\ run = NoRun

----------------------------------------------------------------------------
(* part_000: handleSubmit.  Awaits: request.json(), get subs, get meta,      *)
(* put subs, put meta.                                                       *)

\* Lines 52-69: the body is parsed, the required fields and the date are checked.
handleSubmit_body(k) ==
    /\ started < MaxReqs
    /\ Free(k)
    /\ started' = started + 1
    /\ \E b \in SubmitBodies :
        LET date == IF "date" \in b.missing THEN Absent ELSE b.date
            fp   == IF "fingerprint" \in b.missing THEN Absent ELSE b.fp
        IN  IF b.missing # {}
            THEN /\ out' = [ErrorOut("submit", 400, "missing required fields")
                               EXCEPT !.date = date, !.fp = fp, !.todayRead = todayUTC]
                 /\ reqs' = [reqs EXCEPT ![k] = Idle]
            ELSE IF NotToday(date)
            THEN /\ out' = [ErrorOut("submit", 400, "submissions only accepted for today")
                               EXCEPT !.date = date, !.fp = fp, !.cards = b.cards,
                                      !.basics = b.basics, !.todayRead = todayUTC]
                 /\ reqs' = [reqs EXCEPT ![k] = Idle]
            ELSE /\ out' = NoOut
                 /\ reqs' = [reqs EXCEPT ![k] =
                        [Idle EXCEPT !.op = "submit", !.pc = "getSubs", !.date = date,
                                     !.fp = fp, !.cards = b.cards, !.basics = b.basics,
                                     !.todayRead = todayUTC,
                                     !.prior = ok200[<<date, fp>>]]]
    /\ UNCHANGED <<notStore, clock, kv, present, ok200>>

\* Line 74: submissions = await env.SUBS.get(subsKey, 'json') || []
handleSubmit_getSubs(k) ==
    /\ reqs[k].op = "submit"
    /\ reqs[k].pc = "getSubs"
    /\ reqs' = [reqs EXCEPT ![k].subs = GetSubs(reqs[k].date),
                            ![k].subsIn = GetSubs(reqs[k].date),
                            ![k].pc = "getMeta"]
    /\ out' = NoOut
    /\ UNCHANGED <<notStore, clock, kv, present, started, ok200>>

\* The response of a submit handler that stops at r with the given status.
SubmitOut(r, status, kind, err, id) ==
    [NoOut EXCEPT !.op = "submit", !.status = status, !.kind = kind, !.err = err,
                  !.date = r.date, !.fp = r.fp, !.cards = r.cards, !.basics = r.basics,
                  !.todayRead = r.todayRead, !.id = id, !.subs = r.subs,
                  !.meta = r.meta, !.subsIn = r.subsIn, !.metaIn = r.metaIn,
                  !.wrote = r.wrote, !.prior = r.prior]

\* Mutant: the submission is put in front of the list (unshift).
CreateSubmissionUnshift(r, id) ==
    LET submission == [id |-> id, fingerprint |-> r.fp, cards |-> r.cards,
                       basics |-> r.basics]
        submissions == <<submission>> \o r.subs
    IN  [r EXCEPT !.id = id, !.subs = submissions,
                  !.meta = [r.meta EXCEPT !.count = Len(submissions)],
                  !.pc = "putSubs"]

\* Lines 93-104: the submission is created and pushed, meta.count is set.
\* Of the submission the model keeps the id, the fingerprint, cardIds.length and
\* the sum of basics; name, submittedAt and colors are read by no handler.
CreateSubmission(r, id) ==
    LET submission == [id |-> id, fingerprint |-> r.fp, cards |-> r.cards,
                       basics |-> r.basics]
        submissions == Append(r.subs, submission)
    IN  [r EXCEPT !.id = id, !.subs = submissions,
                  !.meta = [r.meta EXCEPT !.count = Len(submissions)],
                  !.pc = "putSubs"]

\* Lines 75-104: meta is read; dedup check, deck size check, the new submission.
handleSubmit_getMeta(k) ==
    /\ reqs[k].op = "submit"
    /\ reqs[k].pc = "getMeta"
    /\ LET r == [reqs[k] EXCEPT !.meta = GetMeta(reqs[k].date),
                                !.metaIn = GetMeta(reqs[k].date)]
           existing == Find(r.subs, r.fp)
       IN  IF existing # 0
           THEN /\ out' = SubmitOut(r, 409, "idfull", "", r.subs[existing].id)
                /\ reqs' = [reqs EXCEPT ![k] = Idle]
           ELSE IF TooSmall(r.cards, r.basics)
           THEN /\ out' = SubmitOut(r, 400, "error", "deck must have at least 40 cards",
                                    Absent)
                /\ reqs' = [reqs EXCEPT ![k] = Idle]
           ELSE /\ out' = NoOut
                /\ \E id \in Ids : reqs' = [reqs EXCEPT ![k] = CreateSubmission(r, id)]
    /\ UNCHANGED <<notStore, clock, kv, present, started, ok200>>

\* Mutant: the put appends the new submission to the list stored at that moment.
handleSubmit_putSubsAppend(k) ==
    /\ reqs[k].op = "submit"
    /\ reqs[k].pc = "putSubs"
    /\ kv' = [kv EXCEPT ![SubsKey(reqs[k].date)] =
                Append(GetSubs(reqs[k].date), reqs[k].subs[Len(reqs[k].subs)])]
    /\ present' = present \cup {SubsKey(reqs[k].date)}
    /\ reqs' = [reqs EXCEPT ![k].wrote = @ \cup {SubsKey(reqs[k].date)},
                            ![k].pc = "putMeta"]
    /\ out' = NoOut
    /\ UNCHANGED <<notStore, clock, started, ok200>>

\* Line 107: await env.SUBS.put(subsKey, JSON.stringify(submissions))
handleSubmit_putSubs(k) ==
    /\ reqs[k].op = "submit"
    /\ reqs[k].pc = "putSubs"
    /\ kv' = [kv EXCEPT ![SubsKey(reqs[k].date)] = reqs[k].subs]
    /\ present' = present \cup {SubsKey(reqs[k].date)}
    /\ reqs' = [reqs EXCEPT ![k].wrote = @ \cup {SubsKey(reqs[k].date)},
                            ![k].pc = "putMeta"]
    /\ out' = NoOut
    /\ UNCHANGED <<notStore, clock, started, ok200>>

\* Lines 108-110: await env.SUBS.put(metaKey, JSON.stringify(meta)); the 200 response.
handleSubmit_putMeta(k) ==
    /\ reqs[k].op = "submit"
    /\ reqs[k].pc = "putMeta"
    /\ kv' = [kv EXCEPT ![MetaKey(reqs[k].date)] = reqs[k].meta]
    /\ present' = present \cup {MetaKey(reqs[k].date)}
    /\ LET r == [reqs[k] EXCEPT !.wrote = @ \cup {MetaKey(reqs[k].date)}]
       IN  /\ out' = SubmitOut(r, 200, "idfull", "", r.id)
           /\ ok200' = [ok200 EXCEPT ![<<r.date, r.fp>>] = Append(@, r.id)]
    /\ reqs' = [reqs EXCEPT ![k] = Idle]
    /\ UNCHANGED <<notStore, clock, started>>

----------------------------------------------------------------------------
(* part_000: handleGetSubmissions.  Awaits: get subs, get meta.              *)

GetDates == DaySet \cup {BadDate, Absent}

\* /^\d{4}-\d{2}-\d{2}$/.test(date)
WellFormedDate(date) == date \in DaySet

\* Lines 114-118
handleGetSubmissions_start(k) ==
    /\ started < MaxReqs
    /\ Free(k)
    /\ started' = started + 1
    /\ \E date \in GetDates, fp \in FPs \cup {Absent} :
        IF date = Absent \/ ~WellFormedDate(date)
        THEN /\ out' = [ErrorOut("get", 400, "invalid date") EXCEPT !.date = date, !.fp = fp]
             /\ reqs' = [reqs EXCEPT ![k] = Idle]
        ELSE /\ out' = NoOut
             /\ reqs' = [reqs EXCEPT ![k] =
                    [Idle EXCEPT !.op = "get", !.pc = "getSubs", !.date = date, !.fp = fp,
                                 !.prior = IF fp = Absent THEN <<>>
                                           ELSE ok200[<<date, fp>>]]]
    /\ UNCHANGED <<notStore, clock, kv, present, ok200>>

\* Line 122
handleGetSubmissions_getSubs(k) ==
    /\ reqs[k].op = "get"
    /\ reqs[k].pc = "getSubs"
    /\ reqs' = [reqs EXCEPT ![k].subs = GetSubs(reqs[k].date),
                            ![k].subsIn = GetSubs(reqs[k].date),
                            ![k].pc = "getMeta"]
    /\ out' = NoOut
    /\ UNCHANGED <<notStore, clock, kv, present, started, ok200>>

\* meta.count || submissions.length
CountOf(meta, subs) == IF meta.count # 0 THEN meta.count ELSE Len(subs)

\* Lines 123-131
handleGetSubmissions_getMeta(k) ==
    /\ reqs[k].op = "get"
    /\ reqs[k].pc = "getMeta"
    /\ LET r == reqs[k]
           meta == GetMeta(r.date)
           base == [NoOut EXCEPT !.op = "get", !.date = r.date, !.fp = r.fp,
                                 !.subsIn = r.subsIn, !.metaIn = meta, !.prior = r.prior]
       IN  IF r.fp # Absent /\ Some(r.subs, r.fp)
           THEN out' = [base EXCEPT !.status = 200, !.kind = "full", !.subs = r.subs,
                                    !.meta = meta]
           ELSE out' = [base EXCEPT !.status = 403, !.kind = "count",
                                    !.count = CountOf(meta, r.subs)]
    /\ reqs' = [reqs EXCEPT ![k] = Idle]
    /\ UNCHANGED <<notStore, clock, kv, present, started, ok200>>

----------------------------------------------------------------------------
(* part_000: handleFeature.  Awaits: request.json(), get meta, put meta.     *)

\* Lines 135-138: the Authorization header is checked before anything is awaited.
handleFeature_auth(k) ==
    /\ started < MaxReqs
    /\ Free(k)
    /\ started' = started + 1
    /\ \E auth \in AuthHeaders :
        IF Unauthorized(auth)
        THEN /\ out' = [ErrorOut("feature", 401, "unauthorized") EXCEPT !.auth = auth]
             /\ reqs' = [reqs EXCEPT ![k] = Idle]
        ELSE /\ out' = NoOut
             /\ reqs' = [reqs EXCEPT ![k] = [Idle EXCEPT !.op = "feature", !.pc = "body",
                                                          !.auth = auth]]
    /\ UNCHANGED <<notStore, clock, kv, present, ok200>>

\* Lines 140-150
handleFeature_body(k) ==
    /\ reqs[k].op = "feature"
    /\ reqs[k].pc = "body"
    /\ \E date \in DaySet \cup {Absent}, sid \in Ids \cup {Absent}, featured \in BOOLEAN :
        IF date = Absent \/ sid = Absent
        THEN /\ out' = [ErrorOut("feature", 400, "missing date or submissionId")
                           EXCEPT !.date = date, !.sid = sid, !.bodyRead = TRUE,
                                  !.auth = reqs[k].auth]
             /\ reqs' = [reqs EXCEPT ![k] = Idle]
        ELSE /\ out' = NoOut
             /\ reqs' = [reqs EXCEPT ![k].pc = "getMeta", ![k].date = date,
                                     ![k].sid = sid, ![k].featured = featured]
    /\ UNCHANGED <<notStore, clock, kv, present, started, ok200>>

\* Mutant: the id is pushed without the includes() test.
ToggleFeaturedAlwaysPush(list, sid, featured) ==
    IF featured THEN Append(list, sid) ELSE Filter(list, sid)

\* Lines 155-161: the featured list after the toggle
ToggleFeatured(list, sid, featured) ==
    IF featured
    THEN IF ~Includes(list, sid) THEN Append(list, sid) ELSE list
    ELSE Filter(list, sid)

\* Lines 153-161
handleFeature_getMeta(k) ==
    /\ reqs[k].op = "feature"
    /\ reqs[k].pc = "getMeta"
    /\ LET meta == GetMeta(reqs[k].date)
       IN  reqs' = [reqs EXCEPT
                ![k].metaIn = meta,
                ![k].meta = [meta EXCEPT !.featured =
                                ToggleFeatured(meta.featured, reqs[k].sid, reqs[k].featured)],
                ![k].pc = "putMeta"]
    /\ out' = NoOut
    /\ UNCHANGED <<notStore, clock, kv, present, started, ok200>>

\* Lines 163-164
handleFeature_putMeta(k) ==
    /\ reqs[k].op = "feature"
    /\ reqs[k].pc = "putMeta"
    /\ kv' = [kv EXCEPT ![MetaKey(reqs[k].date)] = reqs[k].meta]
    /\ present' = present \cup {MetaKey(reqs[k].date)}
    /\ out' = [NoOut EXCEPT !.op = "feature", !.status = 200, !.kind = "meta",
                            !.date = reqs[k].date, !.sid = reqs[k].sid,
                            !.featured = reqs[k].featured, !.meta = reqs[k].meta,
                            !.metaIn = reqs[k].metaIn, !.bodyRead = TRUE,
                            !.auth = reqs[k].auth,
                            !.wrote = {MetaKey(reqs[k].date)}]
    /\ reqs' = [reqs EXCEPT ![k] = Idle]
    /\ UNCHANGED <<notStore, clock, started, ok200>>

----------------------------------------------------------------------------
(* The UTC date changes at midnight. *)

Midnight ==
    /\ \E i \in 1..(Len(Days) - 1) : clock = Days[i] /\ clock' = Days[i + 1]
    /\ out' = NoOut
    /\ UNCHANGED <<notStore, kv, present, reqs, started, ok200>>

Next ==
    \/ \E k \in ReqIds : handleSubmit_body(k)
    \/ \E k \in ReqIds : handleSubmit_getSubs(k)
    \/ \E k \in ReqIds : handleSubmit_getMeta(k)
    \/ \E k \in ReqIds : handleSubmit_putSubs(k)
    \/ \E k \in ReqIds : handleSubmit_putMeta(k)
    \/ \E k \in ReqIds : handleGetSubmissions_start(k)
    \/ \E k \in ReqIds : handleGetSubmissions_getSubs(k)
    \/ \E k \in ReqIds : handleGetSubmissions_getMeta(k)
    \/ \E k \in ReqIds : handleFeature_auth(k)
    \/ \E k \in ReqIds : handleFeature_body(k)
    \/ \E k \in ReqIds : handleFeature_getMeta(k)
    \/ \E k \in ReqIds : handleFeature_putMeta(k)
    \/ Midnight

Spec == Init /\ [][Next]_vars

\* The same handlers when requests do not overlap: a request is received only
\* when no handler is running.
NoneInFlight == \A k \in ReqIds : reqs[k].pc = "idle"

NextSeq ==
    \/ \E k \in ReqIds : NoneInFlight /\ handleSubmit_body(k)
    \/ \E k \in ReqIds : handleSubmit_getSubs(k)
    \/ \E k \in ReqIds : handleSubmit_getMeta(k)
    \/ \E k \in ReqIds : handleSubmit_putSubs(k)
    \/ \E k \in ReqIds : handleSubmit_putMeta(k)
    \/ \E k \in ReqIds : NoneInFlight /\ handleGetSubmissions_start(k)
    \/ \E k \in ReqIds : handleGetSubmissions_getSubs(k)
    \/ \E k \in ReqIds : handleGetSubmissions_getMeta(k)
    \/ \E k \in ReqIds : NoneInFlight /\ handleFeature_auth(k)
    \/ \E k \in ReqIds : handleFeature_body(k)
    \/ \E k \in ReqIds : handleFeature_getMeta(k)
    \/ \E k \in ReqIds : handleFeature_putMeta(k)
    \/ Midnight

SpecSeq == Init /\ [][NextSeq]_vars

\* A run of main(): sets.json is one of SetsDocs, every attempt of a fetch is
\* answered with one of Responses, and the date may change between two steps.
InitMain ==
    /\ StoreInit
    /\ UiInit
    /\ gen = [GenIdle(<<>>, <<>>) EXCEPT !.calls = 0]
    /\ \E setsDoc \in SetsDocs : run = RunStart(setsDoc)

NextMain ==
    \/ main_seed
    \/ main_date
    \/ \E res \in Responses : main_fetchSets(res)
    \/ \E res \in Responses : main_fetchIndex(res)
    \/ \E res \in Responses : main_fetchBooster(res)
    \/ \E res \in Responses : fetchAllSetCards_page(res)
    \/ main_fetchCards
    \/ generatePool_call
    \/ generatePool_rare
    \/ generatePool_uncommon
    \/ generatePool_common
    \/ generatePool_draw
    \/ generatePool_return
    \/ main_fetchBasicLands
    \/ \E res \in Responses : fetchBasicLands_search(res)
    \/ \E res \in Responses : fetchBasicLands_named(res)
    \/ main_write
    \/ Midnight

SpecMain == InitMain /\ [][NextMain]_vars

----------------------------------------------------------------------------
(* Properties of the submission worker *)

StoredSubs(d) == kv[SubsKey(d)]
StoredMeta(d) == kv[MetaKey(d)]

NoDuplicates(list) ==
    \A i, j \in 1..Len(list) : i # j => list[i] # list[j]

\* A submit handler that got past the checks of lines 62-69.
SubmitChecked ==
    /\ out.op = "submit"
    /\ out.kind # "error" \/ out.err = "deck must have at least 40 cards"

\* C1: in every reachable state, under any interleaving of the handlers, the
\* list stored under subs:<date> holds no two submissions with the same fingerprint.
C1_OnePerFingerprint ==
    \A d \in DaySet : \A i, j \in 1..Len(StoredSubs(d)) :
        i # j => StoredSubs(d)[i].fingerprint # StoredSubs(d)[j].fingerprint

\* C1 witness: two submits of one fingerprint were both answered 200 for the same
\* date (they overlapped), and the stored list holds that fingerprint.
C1_Witness ==
    \E d \in DaySet, f \in FPs :
        /\ Len(ok200[<<d, f>>]) >= 2
        /\ Some(StoredSubs(d), f)

\* C2: once a submit of fingerprint F for a date was answered 200, every later
\* submit of F for that date that passes the field and date checks is answered
\* 409 with the id of the first submission and the list and metadata it read,
\* whatever its deck size, and writes nothing.
C2_RepeatIsConflict ==
    (SubmitChecked /\ out.prior # <<>>) =>
        /\ out.status = 409
        /\ out.id = out.prior[1]
        /\ out.subs = out.subsIn
        /\ out.meta = out.metaIn
        /\ out.wrote = {}

\* C3, first part: a well-formed getSubmissions is answered 200 with the list and
\* the metadata exactly when its fingerprint is that of a submission in the list
\* it read, and 403 with a count and no list otherwise.
C3_Gate ==
    (out.op = "get" /\ out.kind # "error") =>
        IF out.fp # Absent /\ \E i \in 1..Len(out.subsIn) : out.subsIn[i].fingerprint = out.fp
        THEN out.status = 200 /\ out.kind = "full" /\ out.subs = out.subsIn
             /\ out.meta = out.metaIn
        ELSE out.status = 403 /\ out.kind = "count" /\ out.subs = <<>>

\* C3: the gate above, and after the submit of a fingerprint has completed (200)
\* the same query returns 200 with the list.
C3_UnlockedAfterSubmit ==
    /\ C3_Gate
    /\ (out.op = "get" /\ out.kind # "error" /\ out.prior # <<>>) =>
            out.status = 200 /\ out.kind = "full"

\* C4: a submit handler's put stores the list it read plus its own submission,
\* whatever was written to the key since it read: a submission stored in between
\* by another handler is overwritten.
C4_PutOverwrites ==
    [][\A k \in ReqIds :
        (reqs[k].op = "submit" /\ reqs[k].pc = "putSubs" /\ reqs'[k].pc = "putMeta") =>
            /\ Len(StoredSubs(reqs[k].date)') = Len(reqs[k].subsIn) + 1
            /\ SubSeq(StoredSubs(reqs[k].date)', 1, Len(reqs[k].subsIn)) = reqs[k].subsIn
            /\ StoredSubs(reqs[k].date)'[Len(reqs[k].subsIn) + 1].fingerprint = reqs[k].fp
      ]_vars

\* C4 witness: two submits with different fingerprints for one date were both
\* answered 200, no handler is running, and the stored list holds one submission.
C4_Witness ==
    /\ out.op = "submit" /\ out.status = 200
    /\ NoneInFlight
    /\ \E f \in FPs \ {out.fp} :
          /\ ok200[<<out.date, f>>] # <<>>
          /\ ~Some(out.subsIn, f)
          /\ ~Some(StoredSubs(out.date), f)
    /\ Len(StoredSubs(out.date)) = 1

\* C5: a submit with a fresh fingerprint that passes the field and date checks is
\* answered 400 without a write when cardIds.length + sum(basics) < 40 and is
\* answered 200 otherwise; every stored submission has at least 40 cards.
C5_MinimumDeck ==
    /\ (SubmitChecked /\ ~Some(out.subsIn, out.fp)) =>
            IF out.cards + out.basics < 40
            THEN out.status = 400 /\ out.wrote = {}
            ELSE out.status = 200
    /\ \A d \in DaySet : \A i \in 1..Len(StoredSubs(d)) :
            StoredSubs(d)[i].cards + StoredSubs(d)[i].basics >= 40

\* C5 witness: a deck of 39 cards is refused while a deck of exactly 40 is stored.
C5_Witness ==
    /\ out.op = "submit" /\ out.status = 400 /\ out.cards + out.basics = 39
    /\ out.err = "deck must have at least 40 cards"
    /\ \E i \in 1..Len(StoredSubs(out.date)) :
            StoredSubs(out.date)[i].cards + StoredSubs(out.date)[i].basics = 40

\* C6: a submit whose date is not the UTC date the handler reads is answered 400
\* whatever else it carries and writes nothing; a submit handler only writes the
\* subs and meta keys of the date it read as today.
C6_DateFence ==
    /\ (out.op = "submit" /\ out.date # out.todayRead) =>
            out.status = 400 /\ out.wrote = {}
    /\ out.op = "submit" =>
            out.wrote \subseteq {SubsKey(out.todayRead), MetaKey(out.todayRead)}
    /\ \A k \in ReqIds : reqs[k].op = "submit" =>
            /\ reqs[k].date = reqs[k].todayRead
            /\ reqs[k].wrote \subseteq {SubsKey(reqs[k].todayRead), MetaKey(reqs[k].todayRead)}

\* C6 witness: a submit complete in every field, with a deck of 40 cards, is
\* refused for carrying yesterday's date.
C6_Witness ==
    /\ out.op = "submit" /\ out.status = 400
    /\ out.err = "submissions only accepted for today"
    /\ out.date = Days[1] /\ out.todayRead = Days[2]
    /\ out.cards + out.basics >= 40

\* C7: the stored featured list of a day never holds an id twice; an answered
\* setFeatured(id, true) stores the list it read, with id appended when it was
\* absent; setFeatured(id, false) stores the list it read without id, the other
\* ids in their order.
C7_FeaturedToggle ==
    /\ \A d \in DaySet : NoDuplicates(StoredMeta(d).featured)
    /\ (out.op = "feature" /\ out.status = 200) =>
        LET before == out.metaIn.featured
            after  == out.meta.featured
            Other(x) == x # out.sid
        IN  /\ SelectSeq(after, Other) = SelectSeq(before, Other)
            /\ Len(after) - Len(SelectSeq(after, Other)) = IF out.featured THEN 1 ELSE 0
            /\ out.featured => IF \E i \in 1..Len(before) : before[i] = out.sid
                               THEN after = before
                               ELSE after = Append(before, out.sid)

\* C7 witness: setFeatured(id, true) is answered for an id that is featured already,
\* next to another featured id.
C7_Witness ==
    /\ out.op = "feature" /\ out.status = 200 /\ out.featured
    /\ Includes(out.metaIn.featured, out.sid)
    /\ Len(out.meta.featured) = 2

\* C8: a setFeatured request whose Authorization header is absent or differs from
\* 'Bearer ' followed by the secret is answered 401 before its body is read, and
\* the step that answers it leaves every stored key as it was.
C8_Unauthorized ==
    [][(out'.op = "feature" /\ out'.auth # "Bearer s3cret") =>
            /\ out'.status = 401
            /\ ~out'.bodyRead
            /\ out'.wrote = {}
            /\ kv' = kv /\ present' = present
      ]_vars

\* C8 witness: a request with a wrong bearer token is answered 401 while the store
\* holds a featured list.
C8_Witness ==
    /\ out.op = "feature" /\ out.status = 401 /\ out.auth = "Bearer wrong"
    /\ \E d \in DaySet : StoredMeta(d).featured # <<>>

\* The fingerprint of the submit just answered had a submission for the date when
\* the request was handled: in the list the handler read or, when it answered
\* before reading, in the list stored.
HadSubmission ==
    IF SubmitChecked THEN Some(out.subsIn, out.fp)
    ELSE Some(StoredSubs(out.date), out.fp)

\* C18: a submit for today's date by a fingerprint that already has a submission
\* for that date is never answered 400, whatever is missing or undersized in its
\* payload: it is answered 409 with the existing id and the list and metadata read.
C18_DedupBeforeValidation ==
    (/\ out.op = "submit"
     /\ out.fp # Absent /\ out.date # Absent
     /\ out.date = out.todayRead
     /\ HadSubmission)
    => /\ out.status = 409
       /\ out.id = out.subsIn[Find(out.subsIn, out.fp)].id
       /\ out.subs = out.subsIn /\ out.meta = out.metaIn

\* The part of C18 on the deck size: a repeat caller that passed the field and
\* date checks is answered 409 whatever the size of the new deck.
DedupBeforeSizeCheck ==
    (SubmitChecked /\ Some(out.subsIn, out.fp))
    => /\ out.status = 409
       /\ out.id = out.subsIn[Find(out.subsIn, out.fp)].id
       /\ out.subs = out.subsIn /\ out.meta = out.metaIn

\* The repeat caller with an undersized deck
DedupBeforeSizeCheckWitness ==
    /\ SubmitChecked /\ Some(out.subsIn, out.fp)
    /\ out.cards + out.basics < 40

\* C19: no step of a submit handler changes the featured list stored under
\* meta:<date>, under any interleaving of the requests.
C19_SubmitKeepsFeatured ==
    [][(\E k \in ReqIds : reqs[k].op = "submit" /\ reqs'[k] # reqs[k])
            => \A d \in DaySet : StoredMeta(d)'.featured = StoredMeta(d).featured
      ]_vars

\* C20: when requests are handled one at a time, a step changes the list stored
\* under subs:<date> only by appending one submission, that of the submit handler
\* taking the step, the earlier elements keeping position and content; a submit
\* answered 200 leaves the list it read plus its submission; a request answered
\* otherwise (400, 401, 403, 409, or 200 by getSubmissions or setFeatured) has
\* left every list as it was when the request arrived.
C20_AppendOnly ==
    [][/\ \A d \in DaySet :
            \/ StoredSubs(d)' = StoredSubs(d)
            \/ \E k \in ReqIds :
                /\ reqs[k].op = "submit" /\ reqs[k].pc = "putSubs" /\ reqs[k].date = d
                /\ Len(StoredSubs(d)') = Len(StoredSubs(d)) + 1
                /\ SubSeq(StoredSubs(d)', 1, Len(StoredSubs(d))) = StoredSubs(d)
                /\ StoredSubs(d)'[Len(StoredSubs(d)')].id = reqs[k].id
                /\ StoredSubs(d)'[Len(StoredSubs(d)')].fingerprint = reqs[k].fp
       /\ (out'.op = "submit" /\ out'.status = 200) =>
            /\ Len(kv'[SubsKey(out'.date)]) = Len(out'.subsIn) + 1
            /\ SubSeq(kv'[SubsKey(out'.date)], 1, Len(out'.subsIn)) = out'.subsIn
       /\ (out'.op # "none" /\ ~(out'.op = "submit" /\ out'.status = 200)) =>
            /\ \A d \in DaySet : StoredSubs(d)' = StoredSubs(d)
            /\ out'.wrote \cap {SubsKey(d) : d \in DaySet} = {}
            /\ (out'.op \in {"submit", "get"} /\ out'.subsIn # <<>>) =>
                    kv'[SubsKey(out'.date)] = out'.subsIn
      ]_vars

\* C20 witness: with requests handled one at a time, a second submit was accepted
\* and the list holds two submissions, the first where it was.
C20_Witness ==
    /\ out.op = "submit" /\ out.status = 200
    /\ Len(out.subsIn) = 1
    /\ Len(StoredSubs(out.date)) = 2
    /\ StoredSubs(out.date)[1] = out.subsIn[1]

\* C29: for every date and fingerprint at most one submit is ever answered 200,
\* overlapping submits included; a submit that comes after one answered 200 is
\* answered 409 with the id of the submission stored for the fingerprint.
C29_OneSuccessPerFingerprint ==
    /\ \A d \in DaySet, f \in FPs : Len(ok200[<<d, f>>]) <= 1
    /\ (SubmitChecked /\ out.prior # <<>>) =>
            /\ out.status = 409
            /\ \E i \in 1..Len(StoredSubs(out.date)) :
                    /\ StoredSubs(out.date)[i].fingerprint = out.fp
                    /\ StoredSubs(out.date)[i].id = out.id

\* C30: whenever no request is in flight, the count stored under meta:<date> is
\* the length of the list stored under subs:<date>.
C30_CountIsLength ==
    NoneInFlight =>
        \A d \in DaySet : StoredMeta(d).count = Len(StoredSubs(d))

----------------------------------------------------------------------------
(* Properties of the pool generator *)

IsPrefix(a, b) == Len(a) <= Len(b) /\ a = SubSeq(b, 1, Len(a))

HasRarity(cards, rarity) == \E i \in 1..Len(cards) : cards[i].rarity = rarity

\* C9: pool generation is deterministic: every call of generatePool with the same
\* catalog, booster definition and seed draws the same sequence of PRNG values and
\* returns the same cards in the same order as the first call did.
C9_Deterministic ==
    /\ \A i, j \in 1..Len(gen.results) : gen.results[i] = gen.results[j]
    /\ (gen.results # <<>> /\ gen.pc # "idle") =>
            /\ IsPrefix(gen.values, gen.results[1].values)
            /\ IsPrefix(gen.pool, gen.results[1].pool)

\* C9 witness: a second call has returned, after drawing 90 PRNG values.
C9_Witness ==
    /\ Len(gen.results) >= 2
    /\ Len(gen.results[2].values) = 90
    /\ gen.results[2].values[1] # gen.results[2].values[2]

\* C10: on the legacy path, for a catalog with at least one card of each rarity,
\* generatePool returns 6 x 14 = 84 cards, each block of 14 being one rare or
\* mythic, then 3 uncommons, then 10 commons.
C10_LegacyShape ==
    (/\ gen.boosterFile = NoBooster
     /\ \A rarity \in {"common", "uncommon", "rare", "mythic"} : HasRarity(gen.cards, rarity))
    => \A n \in 1..Len(gen.results) :
        LET pool == gen.results[n].pool
        IN  /\ Len(pool) = 84
            /\ \A b \in 0..5 :
                /\ pool[14 * b + 1].rarity \in {"rare", "mythic"}
                /\ \A k \in 2..4 : pool[14 * b + k].rarity = "uncommon"
                /\ \A k \in 5..14 : pool[14 * b + k].rarity = "common"

\* C10 witness: a returned legacy pool whose packs open with a rare in one pack and
\* with a mythic in another.
C10_Witness ==
    /\ gen.boosterFile = NoBooster
    /\ gen.results # <<>>
    /\ \A rarity \in {"common", "uncommon", "rare", "mythic"} : HasRarity(gen.cards, rarity)
    /\ \E b, c \in 0..5 :
        /\ gen.results[1].pool[14 * b + 1].rarity = "rare"
        /\ gen.results[1].pool[14 * c + 1].rarity = "mythic"

----------------------------------------------------------------------------
(* Properties of the structured path *)

\* The cards of the catalog eligible for a slot: the rarity is in the slot's
\* rarity set (when it has one) and the collector number in one of its ranges.
Eligible(cards, slot) ==
    SelectSeq(cards, LAMBDA card :
        /\ slot.hasPool
        /\ slot.hasRarities => HasRarityIn(slot, card.rarity)
        /\ InRanges(card.collector_number, Ranges(slot)))

EligibleOf(cards, slot, rarity) ==
    SelectSeq(Eligible(cards, slot), LAMBDA card : card.rarity = rarity)

RECURSIVE SumCounts(_)
SumCounts(slots) ==
    IF slots = <<>> THEN 0 ELSE Head(slots).count + SumCounts(Tail(slots))

Structured == HasSlots(gen.boosterFile)

EveryRarityEligible ==
    \A s \in 1..Len(gen.boosterFile.slots) :
        LET slot == gen.boosterFile.slots[s]
        IN  /\ Eligible(gen.cards, slot) # <<>>
            /\ slot.hasRarities =>
                    \A r \in 1..Len(slot.rarities) :
                        EligibleOf(gen.cards, slot, slot.rarities[r]) # <<>>

RECURSIVE Stream(_, _)
Stream(state, n) ==
    IF n = 0 THEN <<>>
    ELSE LET r == Random(state)
         IN  IF r.u \in Seq(Nat) THEN <<r.u>> \o Stream(r.seed, n - 1) ELSE <<>>

\* The concatenation of the values consumed by the draws
RECURSIVE ValuesOf(_)
ValuesOf(draws) ==
    IF draws = <<>> THEN <<>> ELSE Head(draws).values \o ValuesOf(Tail(draws))

\* The cards of the draws that gave one
RECURSIVE CardsOf(_)
CardsOf(draws) ==
    IF draws = <<>> THEN <<>>
    ELSE IF Head(draws).n > 0 THEN <<Head(draws).card>> \o CardsOf(Tail(draws))
    ELSE CardsOf(Tail(draws))

\* Draw d comes before draw e: pack first, then slot, then draw within the slot
Before(d, e) ==
    \/ d.pack < e.pack
    \/ d.pack = e.pack /\ d.slot < e.slot
    \/ d.pack = e.pack /\ d.slot = e.slot /\ d.i < e.i

PackMajor(draws) == \A n \in 1..(Len(draws) - 1) : Before(draws[n], draws[n + 1])

\* C12: the draws of the structured path are made pack by pack, within a pack in
\* the declaration order of the slots, within a slot in draw order; the pool
\* holds the cards in the order of the draws, and the draws consume the values
\* of the PRNG in that order, none skipped.
C12_PackMajor ==
    Structured =>
        /\ PackMajor(gen.draws)
        /\ gen.pc \in {"draw", "return"} =>
                gen.pool = CardsOf(gen.draws) /\ gen.values = ValuesOf(gen.draws)
        /\ \A n \in 1..Len(gen.results) :
            LET res == gen.results[n]
            IN  /\ PackMajor(res.draws)
                /\ res.pool = CardsOf(res.draws)
                /\ ValuesOf(res.draws) = Stream(hashString(gen.seed), Len(res.values))

\* C12 witness: a structured call over several slots, one with two draws, has
\* returned; its last draw is in the sixth pack.
C12_Witness ==
    /\ Structured
    /\ gen.results # <<>>
    /\ LET draws == gen.results[1].draws
       IN  /\ draws # <<>>
           /\ draws[Len(draws)].pack = 5
           /\ \E n \in 1..Len(draws) : draws[n].i = 1
           /\ \E n \in 1..Len(draws) : draws[n].pack = 0 /\ draws[n].slot > 1

AllDraws == gen.draws \o Flatten([n \in 1..Len(gen.results) |-> gen.results[n].draws])

\* C13: a draw in a rare/mythic slot gives a mythic only if the slot has an
\* eligible mythic and the value drawn for the decision is below the slot's
\* mythic rate (1/8 when the slot declares none); otherwise it gives a rare.  A
\* slot with mythicRate 0 or without eligible mythic gives rares only.
C13_MythicRule ==
    Structured =>
        \A n \in 1..Len(AllDraws) :
            LET d == AllDraws[n]
                slot == gen.boosterFile.slots[d.slot]
                rate == IF slot.hasRate THEN slot.mythicRate ELSE 1
                mythics == EligibleOf(gen.cards, slot, "mythic")
            IN  (/\ slot.hasRarities
                 /\ HasRarityIn(slot, "rare") /\ HasRarityIn(slot, "mythic")
                 /\ d.n > 0)
                => /\ d.card.rarity \in {"rare", "mythic"}
                   /\ d.card.rarity = "mythic" =>
                        /\ mythics # <<>>
                        /\ d.decision # <<>>
                        /\ d.decision[1][1] < rate * 8192
                   /\ (rate = 0 \/ mythics = <<>>) => d.card.rarity = "rare"

\* The same rule with the mythics of every slot counted as eligible.
MythicRuleAcrossSlots ==
    Structured =>
        \A n \in 1..Len(AllDraws) :
            LET d == AllDraws[n]
                slot == gen.boosterFile.slots[d.slot]
                rate == IF slot.hasRate THEN slot.mythicRate ELSE 1
                mythics == SelectSeq(gen.cards, LAMBDA card :
                              /\ card.rarity = "mythic"
                              /\ \E s \in 1..Len(gen.boosterFile.slots) :
                                    Eligible(<<card>>, gen.boosterFile.slots[s]) # <<>>)
            IN  (/\ slot.hasRarities
                 /\ HasRarityIn(slot, "rare") /\ HasRarityIn(slot, "mythic")
                 /\ d.n > 0)
                => /\ d.card.rarity \in {"rare", "mythic"}
                   /\ d.card.rarity = "mythic" =>
                        /\ mythics # <<>>
                        /\ d.decision # <<>>
                        /\ d.decision[1][1] < rate * 8192
                   /\ (rate = 0 \/ mythics = <<>>) => d.card.rarity = "rare"

\* C14: on the structured path a draw whose chosen pool is empty adds no entry and
\* the draws go on: the pool holds no absent entry, its length is the number of
\* draws whose chosen pool was not empty, and a returned call has made every draw
\* of the six packs.
C14_EmptyPoolSkipped ==
    Structured =>
        /\ \A n \in 1..Len(gen.pool) : gen.pool[n] \notin {Null, Undefined}
        /\ gen.pc \in {"draw", "return"} =>
                Len(gen.pool) = Len(SelectSeq(gen.draws, LAMBDA d : d.n > 0))
        /\ \A n \in 1..Len(gen.results) :
            LET res == gen.results[n]
            IN  /\ \A k \in 1..Len(res.pool) : res.pool[k] \notin {Null, Undefined}
                /\ Len(res.pool) = Len(SelectSeq(res.draws, LAMBDA d : d.n > 0))
                /\ Len(res.draws) =
                        6 * SumCounts(SelectSeq(gen.boosterFile.slots, LAMBDA slot : slot.hasPool))

\* C14 witness: a returned structured call in which a draw with an empty chosen
\* pool was followed by a draw that gave a card.
C14_Witness ==
    /\ Structured
    /\ gen.results # <<>>
    /\ LET draws == gen.results[1].draws
       IN  \E n \in 1..(Len(draws) - 1) : draws[n].n = 0 /\ draws[n + 1].n > 0

\* The claim's reading of a collector number: a string of decimal digits, with
\* an optional minus sign in front, and its value.
IsIntegerString(str) ==
    LET body == IF str # <<>> /\ Head(str) = "-" THEN Tail(str) ELSE str
    IN  body # <<>> /\ \A n \in 1..Len(body) : IsDigit(body[n])

RECURSIVE DecimalValue(_, _)
DecimalValue(str, acc) ==
    IF str = <<>> THEN acc ELSE DecimalValue(Tail(str), 10 * acc + DigitVal(Head(str)))

IntegerValue(str) ==
    IF Head(str) = "-" THEN 0 - DecimalValue(Tail(str), 0) ELSE DecimalValue(str, 0)

\* The position of the dash of a 'start-end' range, 0 for a single number
DashOf(range) ==
    IF \E n \in 1..Len(range) : range[n] = "-"
    THEN CHOOSE n \in 1..Len(range) : range[n] = "-" /\ \A k \in 1..(n - 1) : range[k] # "-"
    ELSE 0

\* The value v is the single number of the range or lies between its bounds
Within(v, range) ==
    IF DashOf(range) = 0 THEN v = DecimalValue(range, 0)
    ELSE /\ DecimalValue(SubSeq(range, 1, DashOf(range) - 1), 0) <= v
         /\ v <= DecimalValue(SubSeq(range, DashOf(range) + 1, Len(range)), 0)

AllRanges == Flatten([s \in 1..Len(gen.boosterFile.slots) |-> Ranges(gen.boosterFile.slots[s])])

\* C15: isInRange(collectorNumber, rangeSpec) is true exactly when collectorNumber
\* is an integer string whose value is the single number of rangeSpec or lies
\* between its bounds; a collector number that is not an integer string matches
\* no range, so the range filter of fetchAllSetCards keeps none.
C15_IntegerStringsOnly ==
    (Structured /\ gen.pc # "start") =>
        /\ \A c \in 1..Len(gen.raw), r \in 1..Len(AllRanges) :
            LET cn == gen.raw[c].collector_number
            IN  isInRange(cn, AllRanges[r]) <=>
                    (IsIntegerString(cn) /\ Within(IntegerValue(cn), AllRanges[r]))
        /\ \A c \in 1..Len(gen.cards) : IsIntegerString(gen.cards[c].collector_number)

\* The same, for the collector numbers that are integer strings.
InRangeOfIntegers ==
    (Structured /\ gen.pc # "start") =>
        \A c \in 1..Len(gen.raw), r \in 1..Len(AllRanges) :
            LET cn == gen.raw[c].collector_number
            IN  IsIntegerString(cn) =>
                    (isInRange(cn, AllRanges[r]) <=> Within(IntegerValue(cn), AllRanges[r]))

\* The ids of the cards of the search that carry an excluded promo type or one
\* of the frame effects inverted and extendedart
ExclusiveIds ==
    {gen.raw[c].id : c \in
        {c \in 1..Len(gen.raw) :
            \/ \E n \in 1..Len(gen.raw[c].promo_types) :
                    gen.raw[c].promo_types[n] \in COLLECTOR_EXCLUSIVE_PROMOS
            \/ \E n \in 1..Len(gen.raw[c].frame_effects) :
                    gen.raw[c].frame_effects[n] \in {"inverted", "extendedart"}}}

\* C16: no card carrying an excluded promo type or frame effect is in a pool
\* generatePool returns in a run, nor in the pool written to daily.json, with a
\* booster definition as without one.
C16_NoCollectorExclusive ==
    /\ \A n \in 1..Len(gen.results) : \A k \in 1..Len(gen.results[n].pool) :
            gen.results[n].pool[k].id \notin ExclusiveIds
    /\ \A k \in 1..Len(gen.daily.pool) : gen.daily.pool[k].id \notin ExclusiveIds

\* C16 witness: daily.json is written from a booster definition whose ranges hold
\* a surge foil and an extended-art print of the set.
C16_Witness ==
    /\ Structured
    /\ gen.daily.written /\ gen.daily.pool # <<>>
    /\ \E c, e \in 1..Len(gen.raw) :
            /\ gen.raw[c].id \in ExclusiveIds /\ gen.raw[e].id \in ExclusiveIds
            /\ gen.raw[c].promo_types = <<"surgefoil">>
            /\ gen.raw[e].frame_effects = <<"extendedart">>
            /\ InRanges(gen.raw[c].collector_number, AllRanges)
            /\ InRanges(gen.raw[e].collector_number, AllRanges)

\* The same without booster definition: the snapshot written on the legacy path
\* from a search that returned collector-exclusive prints flagged as booster cards.
LegacyExclusiveWitness ==
    /\ ~Structured
    /\ gen.daily.written /\ gen.daily.pool # <<>>
    /\ \E c \in 1..Len(gen.raw) : gen.raw[c].id \in ExclusiveIds /\ gen.raw[c].booster

\* C21: every card a draw of a slot with a rarity set puts in the pool has a
\* rarity of that slot's set and a collector number in one of that slot's own
\* ranges.
C21_SlotOwnRanges ==
    Structured =>
        \A n \in 1..Len(AllDraws) :
            LET d == AllDraws[n]
                slot == gen.boosterFile.slots[d.slot]
            IN  (slot.hasRarities /\ d.n > 0)
                => /\ HasRarityIn(slot, d.card.rarity)
                   /\ InRanges(d.card.collector_number, Ranges(slot))

\* The same with the ranges of every slot that declares the card's rarity.
SlotRarityAnyRanges ==
    Structured =>
        \A n \in 1..Len(AllDraws) :
            LET d == AllDraws[n]
                slot == gen.boosterFile.slots[d.slot]
            IN  (slot.hasRarities /\ d.n > 0)
                => /\ HasRarityIn(slot, d.card.rarity)
                   /\ \E s \in 1..Len(gen.boosterFile.slots) :
                        /\ gen.boosterFile.slots[s].hasRarities
                        /\ HasRarityIn(gen.boosterFile.slots[s], d.card.rarity)
                        /\ InRanges(d.card.collector_number, Ranges(gen.boosterFile.slots[s]))

\* The slot declares rare and mythic and nothing else
ExactlyRareMythic(slot) ==
    slot.hasRarities /\ {slot.rarities[n] : n \in 1..Len(slot.rarities)} = {"rare", "mythic"}

\* C22: the mythic rule is applied only to a slot whose rarity set is exactly
\* {rare, mythic}; a draw of a slot with any other rarity set consumes one value
\* to pick one of the declared rarities uniformly, rarities[floor(value * length)],
\* also when the set holds rare and mythic next to further rarities.
C22_ExactPairOnly ==
    Structured =>
        \A n \in 1..Len(AllDraws) :
            LET d == AllDraws[n]
                slot == gen.boosterFile.slots[d.slot]
            IN  (slot.hasRarities /\ ~ExactlyRareMythic(slot))
                => /\ d.decision = <<>>
                   /\ d.values # <<>>
                   /\ d.rarity = slot.rarities[FloorTimes(d.values[1], Len(slot.rarities)) + 1]

\* The same for the slots that do not declare rare and mythic together.
UniformWithoutPair ==
    Structured =>
        \A n \in 1..Len(AllDraws) :
            LET d == AllDraws[n]
                slot == gen.boosterFile.slots[d.slot]
            IN  (slot.hasRarities /\ ~(HasRarityIn(slot, "rare") /\ HasRarityIn(slot, "mythic")))
                => /\ d.decision = <<>>
                   /\ d.values # <<>>
                   /\ d.rarity = slot.rarities[FloorTimes(d.values[1], Len(slot.rarities)) + 1]

\* A slot that declares rare and mythic next to further rarities draws rares and
\* mythics only.
PairWithOthersNeverOther ==
    Structured =>
        \A n \in 1..Len(AllDraws) :
            LET d == AllDraws[n]
                slot == gen.boosterFile.slots[d.slot]
            IN  (/\ slot.hasRarities /\ ~ExactlyRareMythic(slot)
                 /\ HasRarityIn(slot, "rare") /\ HasRarityIn(slot, "mythic"))
                => d.rarity \in {"rare", "mythic"}

\* A returned call drew from a slot declaring uncommon, rare and mythic.
PairWithOthersDrawn ==
    /\ Structured
    /\ gen.results # <<>>
    /\ \E n \in 1..Len(gen.results[1].draws) :
            LET slot == gen.boosterFile.slots[gen.results[1].draws[n].slot]
            IN  slot.hasRarities /\ Len(slot.rarities) = 3 /\ gen.results[1].draws[n].n > 0

\* slot.rarities.includes('mythic') && slot.rarities.includes('rare')
RareMythicSlot(slot) ==
    slot.hasRarities /\ HasRarityIn(slot, "rare") /\ HasRarityIn(slot, "mythic")

\* C23: every draw of a rare/mythic slot consumes exactly one value of the PRNG
\* for the mythic-versus-rare decision, the first value of the draw, whether or
\* not a mythic is eligible; on the legacy path the rare draw of every pack has
\* consumed the decision value and the value of the pick.
C23_DecisionAlwaysDrawn ==
    /\ Structured =>
            \A n \in 1..Len(AllDraws) :
                LET d == AllDraws[n]
                IN  RareMythicSlot(gen.boosterFile.slots[d.slot])
                    => /\ Len(d.decision) = 1
                       /\ d.values # <<>>
                       /\ d.values[1] = d.decision[1]
    /\ (~Structured /\ gen.pc = "uncommon" /\ gen.i = 0) =>
            Len(gen.values) = 15 * gen.pack + 2

\* The decision value is drawn when cardsByRarity.mythic is not empty, and then
\* only; the legacy path draws it for every pack.
DecisionDrawnIfMythics ==
    /\ Structured =>
            \A n \in 1..Len(AllDraws) :
                LET d == AllDraws[n]
                    mythics == cardsByRarity(gen.cards, gen.boosterFile.slots, "mythic")
                IN  RareMythicSlot(gen.boosterFile.slots[d.slot])
                    => /\ Len(d.decision) = (IF mythics # <<>> THEN 1 ELSE 0)
                       /\ Len(d.values) = Len(d.decision) + (IF d.n > 0 THEN 1 ELSE 0)
    /\ (~Structured /\ gen.pc = "uncommon" /\ gen.i = 0) =>
            Len(gen.values) = 15 * gen.pack + 2

\* A returned structured call drew rares from a rare/mythic slot while no mythic
\* was in the ranges of the definition; a legacy call returned for a catalog
\* without mythics.
NoMythicDrawn ==
    \/ /\ Structured
       /\ gen.results # <<>>
       /\ cardsByRarity(gen.cards, gen.boosterFile.slots, "mythic") = <<>>
       /\ \E n \in 1..Len(gen.results[1].draws) :
            /\ RareMythicSlot(gen.boosterFile.slots[gen.results[1].draws[n].slot])
            /\ gen.results[1].draws[n].n > 0
    \/ /\ ~Structured
       /\ gen.results # <<>>
       /\ ~HasRarity(gen.cards, "mythic") /\ HasRarity(gen.cards, "rare")

\* C24: an empty eligible pool is absorbed on every generation path, the legacy
\* path included: every element of a returned pool is a card of the catalog, and
\* the run writes its snapshot instead of aborting, also when the catalog lacks
\* the cards of a rarity tier.
C24_EmptyPoolAbsorbed ==
    /\ \A n \in 1..Len(gen.results) : \A k \in 1..Len(gen.results[n].pool) :
            \E c \in 1..Len(gen.cards) : gen.results[n].pool[k] = gen.cards[c]
    /\ ~gen.daily.crashed

\* The same on the structured path only.
StructuredAbsorbed == Structured => C24_EmptyPoolAbsorbed

\* The legacy path returns an absent entry for each draw of a rarity tier the
\* catalog lacks, and the run that got one is aborted.
LegacyEmptyTierAborts ==
    (~Structured /\ gen.results # <<>>) =>
        /\ (\E r \in {"common", "uncommon", "rare"} : ~HasRarity(gen.cards, r))
                <=> (\E k \in 1..Len(gen.results[1].pool) : gen.results[1].pool[k] = Undefined)
        /\ gen.daily # NoDaily =>
                (gen.daily.crashed <=> \E r \in {"common", "uncommon", "rare"} :
                                            ~HasRarity(gen.cards, r))

\* A legacy run over a catalog without rares was aborted.
LegacyAborted ==
    ~Structured /\ ~HasRarity(gen.cards, "rare") /\ gen.daily.crashed

----------------------------------------------------------------------------
(* Properties of main() *)

\* sets.json was fetched and none of its sets was released on or after 2020-01-01
EmptySelection ==
    /\ run.last.url = "sets" /\ run.last.outcome = "value"
    /\ SelectSeq(run.setsDoc, IsRecent) = <<>>

\* C25: when no set of the catalog was released on or after 2020-01-01, the run
\* ends with an error without dereferencing the absent set (no TypeError), and
\* no pool is generated.
C25_EmptySelectionHandled ==
    EmptySelection =>
        /\ run.pc = "failed"
        /\ run.error.kind # "TypeError"
        /\ gen.pc = "idle" /\ gen.results = <<>>

\* With no recent set the run is rejected by the TypeError of dailySet.name at
\* line 278, before anything is generated.
EmptySelectionThrows ==
    EmptySelection =>
        /\ run.pc = "failed"
        /\ run.error = Thrown("TypeError", 278)
        /\ gen.pc = "idle" /\ gen.results = <<>>

\* C26: a call of fetchJSON whose every attempt was answered 429 makes three
\* attempts and then ends with an error, and the run fails, whichever fetch of
\* the run it was made for.
C26_RateLimitFails ==
    /\ run.i < retries
    /\ run.last.res = "429" =>
            /\ run.last.attempts = retries
            /\ run.last.outcome \in {"HTTP", "SyntaxError"}
            /\ run.pc = "failed"

\* A call whose every attempt was answered 429 makes three attempts and returns
\* undefined; the run fails, by the TypeError of the caller, exactly when the
\* call was for sets.json or for a page of the card search.
RateLimitReturnsUndefined ==
    /\ run.i < retries
    /\ run.last.res = "429" =>
            /\ run.last.attempts = retries
            /\ run.last.outcome = "undefined"
            /\ run.pc = "failed" <=> run.last.url \in {"sets", "cards"}
            /\ run.pc = "failed" => run.error.kind = "TypeError"

\* C27: a fetch of the run answered with an error status other than 429, or
\* with a body that is not JSON, aborts the run: no snapshot is written.
C27_UpstreamFailureFatal ==
    run.last.res \in {"500", "malformed"} =>
        /\ run.pc = "failed"
        /\ ~gen.daily.written

\* The same for sets.json and the card search; a failure of the booster index,
\* the booster file or the basic lands does not end the run.
CatalogFailureFatal ==
    run.last.res \in {"500", "malformed"} =>
        /\ run.pc = "failed" <=> run.last.url \in {"sets", "cards"}
        /\ run.pc = "failed" => ~gen.daily.written /\ run.error.kind = run.last.outcome

\* A snapshot was written by a run whose last fetch failed with an error status.
WrittenAfterFailure ==
    /\ run.pc = "done" /\ gen.daily.written
    /\ run.last.res = "500"

\* The seed of the run is 'daily-' + its date
SeedMatchesDate == run.pc = "done" => run.seed = SeedOf(run.date)

\* The set of the run is the one selection yields for its date
SetMatchesDate == run.pc = "done" => run.dailySet = DailySetFor(run.setsDoc, run.date)

\* C28: the snapshot a run writes has the seed 'daily-' + its date and the set
\* that daily selection yields for that date, also when the UTC date changes
\* during the run.
C28_SnapshotConsistent ==
    run.pc = "done" =>
        /\ gen.daily.written
        /\ run.seed = SeedOf(run.date)
        /\ run.dailySet = DailySetFor(run.setsDoc, run.date)

\* The same for the runs during which the UTC date did not change.
ConsistentWithinOneDay ==
    (run.pc = "done" /\ clock = Days[1]) =>
        /\ gen.daily.written
        /\ run.seed = SeedOf(run.date)
        /\ run.dailySet = DailySetFor(run.setsDoc, run.date)

----------------------------------------------------------------------------
(* The deck builder: specification and properties *)

InitDeck ==
    /\ StoreInit
    /\ UiInit
    /\ gen = GenIdle(<<>>, <<>>)
    /\ run = NoRun

NextDeck ==
    \/ \E k \in Calls : app_generatePool_start(k)
    \/ \E k \in Calls : app_generatePool_failed(k)
    \/ \E k \in Calls : app_generatePool_setPool(k)
    \/ \E k \in Calls : app_generatePool_reset(k)
    \/ handleDailyGenerate_load
    \/ \E card \in CardIds : addToDeck(card)
    \/ \E card \in CardIds : removeFromDeck(card)
    \/ clearDeck

SpecDeck == InitDeck /\ [][NextDeck]_vars

\* No generatePool call stands between its assignment of currentPool (line 229)
\* and its reset of the deck (line 235).
NoPoolPending == \A k \in Calls : ui.calls[k] # "fetchBasicLands"

\* C17: in every reachable state of the deck builder, for every card id the deck
\* holds at most as many copies as the current pool.
C17_DeckWithinPool ==
    \A id \in CardIds : CountOf_id(ui.deck, id) <= CountOf_id(ui.currentPool, id)

\* The same in the states where no generatePool call is past line 229 and before
\* line 235.
DeckWithinPoolAtRest == NoPoolPending => C17_DeckWithinPool

====
